---- MODULE Spec2Model ----
(***************************************************************************)
(* Model of the tiered cache (MemoryCache + LocalStorageCache behind       *)
(* UnifiedCache, src/src/lib/version_check.ts) and of the fetch            *)
(* coordinator built on it (the useCachedData hook,                        *)
(* src/src/hooks/useDoubanInfo.ts).                                        *)
(*                                                                         *)
(* JavaScript values are represented as follows.  A dependency value is a  *)
(* token: "a" and "b" are the strings 'a' and 'b', "null" is null and      *)
(* "undefined" is undefined.  A fetched value is the record                *)
(* [for |-> d, rid |-> n]: the result of the producer of the render whose  *)
(* dependency tuple was d, invoked by fetch attempt n.  JS null in `data`  *)
(* is NullData, in `error` it is NullError.                                *)
(*                                                                         *)
(* One step of the model is one task of the JavaScript event loop: a call  *)
(* of the hook by a render, the run of the effects of that render, a timer *)
(* callback, a call of refresh or clearCache as returned by some render,   *)
(* or the continuation of fetchData after `await fetchFn()`.               *)
(*                                                                         *)
(* The specifications share the variables.  Spec is one hook instance     *)
(* over globalCache; LiveSpec adds its scheduling, NoCacheSpec has         *)
(* enableCache false over a cache that holds an entry, RefSpec passes      *)
(* objects as dependencies.  CacheSpec is a UnifiedCache called directly,  *)
(* with each tier on or off, failing localStorage writes and page reloads; *)
(* LruSpec is the memory tier alone, RoundTripSpec stores null and NaN,    *)
(* SweepSpec shares localStorage with other code.  KeySpec applies         *)
(* generateCacheKey, VersionSpec is checkForUpdates.  In a specification   *)
(* the variables of the other parts keep their initial values.             *)
(***************************************************************************)
EXTENDS Integers, Sequences, FiniteSets, TLC

VARIABLES
    enableCache,        \* option enableCache of this hook instance
    fetchOnMount,       \* option fetchOnMount of this hook instance
    dependencies,       \* option dependencies of the latest render
    renders,            \* number of renders that changed the dependencies
    rendered,           \* the dependency tuple of each such render, first
                        \* render included: what the functions it returned
                        \* to the caller are closed over
    effectsPending,     \* the latest render has returned and its effects
                        \* have not run yet
    data,               \* useState data
    loading,            \* useState loading
    error,              \* useState error
    fromCache,          \* useState fromCache
    debounceTimerRef,   \* handle of the last timer set, 0 for null
    currentParamsRef,   \* snapshot stored by the last fetchData call
    requestIdRef,       \* request counter
    isMountedRef,       \* FALSE once the component is unmounted
    timers,             \* host timers set and neither fired nor cleared
    inflight,           \* fetchFn() promises not yet settled
    store,              \* MemoryCache.store of globalCache, in Map order
    localStorage,       \* window.localStorage: full key -> stored item
    now,                \* Date.now(), in milliseconds
    config,             \* UnifiedCache.config of the cache instance
    recency,            \* history: the keys of the memory tier in the order
                        \* of their last touch (set or hit), oldest first
    written,            \* history: key -> the latest set of that key
    last,               \* history: what the last step did
    burst,              \* history: dependency changes in a row, each arriving
                        \* (the render with the changed tuple) while the
                        \* timer of the one before was pending
    fired,              \* history: timers fired since the latest change
                        \* arrived
    refreshed,          \* history: request id of the latest refresh(), or 0
    memoryCache,        \* version check: the module variable memoryCache
    sessionStorage,     \* version check: the item under CACHE_KEY
    pendingRequest,     \* version check: id of the pending promise, 0 for null
    sequences,          \* version check: the request sequences in flight
    callsMade,          \* history: the calls of checkForUpdates, in order
    apiCalls            \* history: number of calls of checkViaApi

hookVars == <<enableCache, fetchOnMount, dependencies, renders, rendered,
              effectsPending, data, loading, error, fromCache,
              debounceTimerRef, currentParamsRef, requestIdRef, isMountedRef,
              timers, inflight>>
cacheVars == <<store, localStorage, now>>
cacheHist == <<config, recency, written>>
versionVars == <<memoryCache, sessionStorage, pendingRequest, sequences,
                 callsMade, apiCalls>>
vars == <<hookVars, cacheVars, cacheHist, last, burst, fired, refreshed,
          versionVars>>

\* JS null where a VersionCheckResult is expected.
NoResult == "null"

\* memoryCache = null
NoVersionCache == [result |-> NoResult, timestamp |-> 0]

\* sessionStorage.getItem(CACHE_KEY) = null
NoItem == [present |-> FALSE, parses |-> FALSE, result |-> NoResult,
           timestamp |-> 0]

\* The module version_check.ts as loaded, checkForUpdates never called.
VersionIdle ==
    /\ memoryCache = NoVersionCache
    /\ sessionStorage = NoItem
    /\ pendingRequest = 0
    /\ sequences = {}
    /\ callsMade = <<>>
    /\ apiCalls = 0

---------------------------------------------------------------------------
(* Bounds of the model. *)

\* fetchData is called at most this many times.
MaxRequests == 2

\* The dependencies change at most this many times.
MaxRenders == 2

\* Date.now() advances at most this many times.
MaxTicks == 1

\* One advance of the clock, in milliseconds: three hours, which is more
\* than ttl, so that an entry written before it is expired after it.
TickMs == 3 * 3600 * 1000

\* The values a dependency takes.
DepValues == {"a", "b"}

\* The dependency tuples of the caller: one dependency.
DepTuples == {<<v>> : v \in DepValues}

---------------------------------------------------------------------------
(* Program constants. *)

\* Option ttl of useCachedData, in seconds.
ttl == 7200

\* The configuration of the exported instance globalCache.
globalCache == [enableMemory |-> TRUE, enableLocalStorage |-> TRUE,
                defaultTTL |-> 3600, maxMemoryEntries |-> 100]

\* this.config.defaultTTL, in seconds.
defaultTTL == config.defaultTTL

\* this.config.maxMemoryEntries, the maxSize of the memory tier.
maxMemoryEntries == config.maxMemoryEntries

\* localStoragePrefix of globalCache.
localStoragePrefix == "deco-cache:"

NullData == [for |-> <<>>, rid |-> 0]
NullError == <<>>

---------------------------------------------------------------------------
(* MemoryCache: a Map in insertion order, oldest first. *)

MemoryHas(s, key) == \E i \in 1..Len(s) : s[i].key = key

MemoryEntry(s, key) == s[CHOOSE i \in 1..Len(s) : s[i].key = key]

\* Map.delete
MapDelete(s, key) == SelectSeq(s, LAMBDA e : e.key # key)

\* Map.set: an existing key keeps its place, a new key goes to the end.
MapSet(s, e) ==
    IF MemoryHas(s, e.key)
    THEN [i \in 1..Len(s) |-> IF s[i].key = e.key THEN e ELSE s[i]]
    ELSE Append(s, e)

\* An expiry test that compares milliseconds with seconds.
ExpiredMillis(entry, t) == t - entry.timestamp > entry.ttl

\* (Date.now() - entry.timestamp) / 1000 > entry.ttl, the division being
\* the floating point one: 1500 ms are more than 1 s.
Expired(entry, t) == t - entry.timestamp > entry.ttl * 1000

\* if (oldestKey): undefined (the Map is empty) and '' are falsy.
OldestKeyTruthy(s) == Len(s) > 0 /\ Head(s).key # ""

MemoryCacheSet(s, maxSize, key, value, ttlSeconds, t) ==
    LET evicted == IF Len(s) >= maxSize /\ OldestKeyTruthy(s) THEN Tail(s)
                   ELSE s
    IN MapSet(evicted, [key |-> key, data |-> value, timestamp |-> t,
                        ttl |-> ttlSeconds])

\* The result of MemoryCache.get and the store it leaves.
MemoryCacheGet(s, key, t) ==
    IF ~MemoryHas(s, key)
    THEN [data |-> NullData, store |-> s]
    ELSE LET entry == MemoryEntry(s, key)
         IN IF Expired(entry, t)
            THEN [data |-> NullData, store |-> MapDelete(s, key)]
            ELSE [data |-> entry.data,
                  store |-> Append(MapDelete(s, key), entry)]

MemoryCacheDelete(s, key) == MapDelete(s, key)

MemoryCacheClear(s) == <<>>

---------------------------------------------------------------------------
(* LocalStorageCache over window.localStorage.  A stored item is the       *)
(* string JSON.stringify(entry); it is kept as [parses, empty, entry],     *)
(* where JSON.parse throws when `parses` is FALSE and `empty` says that    *)
(* the string is '', which the code never hands to JSON.parse.             *)

getFullKey(key) == localStoragePrefix \o key

removeItem(ls, fullKey) == [k \in (DOMAIN ls) \ {fullKey} |-> ls[k]]

setItem(ls, fullKey, item) ==
    [k \in (DOMAIN ls) \cup {fullKey} |-> IF k = fullKey THEN item ELSE ls[k]]

\* Whether fullKey starts with the prefix of this tier.
startsWithPrefix(fullKey) ==
    /\ Len(fullKey) >= Len(localStoragePrefix)
    /\ SubSeq(fullKey, 1, Len(localStoragePrefix)) = localStoragePrefix

\* A sweep that removes nothing.
LocalStorageCleanExpiredNone(ls, t) == ls

\* cleanExpired(): of the items under the prefix, an empty string is
\* skipped (`if (!stored) continue`); the others are removed when
\* JSON.parse throws or the entry is expired.
LocalStorageCleanExpired(ls, t) ==
    LET keysToDelete ==
            {k \in DOMAIN ls :
                /\ startsWithPrefix(k)
                /\ ~ls[k].empty
                /\ \/ ~ls[k].parses
                   \/ Expired(ls[k].entry, t)}
    IN [k \in (DOMAIN ls) \ keysToDelete |-> ls[k]]

\* The outcomes of the two setItem attempts of LocalStorageCache.set.
Quotas == {"ok", "retry", "drop"}

\* A value that is the number NaN.
NotANumber == [for |-> <<"NaN">>, rid |-> 0]

\* JSON.parse(JSON.stringify(value)): NaN is written as null; null and the
\* plain objects of strings and finite numbers come back as they were.
JSONRoundTrip(value) == IF value = NotANumber THEN NullData ELSE value

\* quota: "ok" (the first setItem succeeds), "retry" (it throws and the
\* retry after cleanExpired succeeds), "drop" (both throw).
LocalStorageCacheSet(ls, key, value, ttlSeconds, t, quota) ==
    LET item == [parses |-> TRUE, empty |-> FALSE,
                 entry |-> [data |-> JSONRoundTrip(value), timestamp |-> t,
                            ttl |-> ttlSeconds]]
    IN CASE quota = "ok" -> setItem(ls, getFullKey(key), item)
         [] quota = "retry" ->
                setItem(LocalStorageCleanExpired(ls, t), getFullKey(key), item)
         [] OTHER -> LocalStorageCleanExpired(ls, t)

\* The result of LocalStorageCache.get and the storage it leaves.  No item
\* and an item that is the empty string are both a miss that changes
\* nothing (`if (!stored) return null`).
LocalStorageCacheGet(ls, key, t) ==
    LET fullKey == getFullKey(key)
    IN IF fullKey \notin DOMAIN ls \/ ls[fullKey].empty
       THEN [data |-> NullData, ls |-> ls]
       ELSE IF ~ls[fullKey].parses
            THEN [data |-> NullData, ls |-> removeItem(ls, fullKey)]
            ELSE LET entry == ls[fullKey].entry
                 IN IF Expired(entry, t)
                    THEN [data |-> NullData, ls |-> removeItem(ls, fullKey)]
                    ELSE [data |-> entry.data, ls |-> ls]

LocalStorageCacheDelete(ls, key) == removeItem(ls, getFullKey(key))

LocalStorageCacheClear(ls) ==
    [k \in {f \in DOMAIN ls : ~startsWithPrefix(f)} |-> ls[k]]

\* The number of setItem calls LocalStorageCache.set makes.
SetItemAttempts(quota) == IF quota = "ok" THEN 1 ELSE 2

\* The number of cleanExpired calls LocalStorageCache.set makes.
CleanExpiredCalls(quota) == IF quota = "ok" THEN 0 ELSE 1

---------------------------------------------------------------------------
(* UnifiedCache.                                                           *)

\* this.config.enableMemory
enableMemory == config.enableMemory

\* this.config.enableLocalStorage
enableLocalStorage == config.enableLocalStorage

\* A get that reads both tiers whatever the configuration says.
UnifiedCacheGetIgnoresFlags(s, ls, key, t) ==
    LET m == MemoryCacheGet(s, key, t)
    IN IF m.data # NullData
       THEN [data |-> m.data, store |-> m.store, ls |-> ls]
       ELSE LET l == LocalStorageCacheGet(ls, key, t)
            IN IF l.data # NullData
               THEN [data |-> l.data,
                     store |-> MemoryCacheSet(m.store, maxMemoryEntries, key,
                                              l.data, defaultTTL, t),
                     ls |-> l.ls]
               ELSE [data |-> NullData, store |-> m.store, ls |-> l.ls]

\* The result of UnifiedCache.get and the two tiers it leaves.
UnifiedCacheGet(s, ls, key, t) ==
    LET m == IF enableMemory THEN MemoryCacheGet(s, key, t)
             ELSE [data |-> NullData, store |-> s]
    IN IF m.data # NullData
       THEN [data |-> m.data, store |-> m.store, ls |-> ls]
       ELSE LET l == IF enableLocalStorage THEN LocalStorageCacheGet(ls, key, t)
                     ELSE [data |-> NullData, ls |-> ls]
            IN IF l.data # NullData
               THEN [data |-> l.data,
                     store |-> IF enableMemory
                               THEN MemoryCacheSet(m.store, maxMemoryEntries, key,
                                                   l.data, defaultTTL, t)
                               ELSE m.store,
                     ls |-> l.ls]
               ELSE [data |-> NullData, store |-> m.store, ls |-> l.ls]

UnifiedCacheSet(s, ls, key, value, ttlSeconds, t, quota) ==
    [store |-> IF enableMemory
               THEN MemoryCacheSet(s, maxMemoryEntries, key, value, ttlSeconds, t)
               ELSE s,
     ls |-> IF enableLocalStorage
            THEN LocalStorageCacheSet(ls, key, value, ttlSeconds, t, quota)
            ELSE ls]

\* UnifiedCache.cleanExpired(): the sweep of the localStorage tier, whatever
\* enableLocalStorage says; the memory tier is not swept.
UnifiedCacheCleanExpired(s, ls, t) ==
    [store |-> s, ls |-> LocalStorageCleanExpired(ls, t)]

UnifiedCacheClear(s, ls) ==
    [store |-> MemoryCacheClear(s), ls |-> LocalStorageCacheClear(ls)]

\* A delete that forgets the localStorage tier.
UnifiedCacheDeleteMemoryOnly(s, ls, key) ==
    [store |-> MemoryCacheDelete(s, key), ls |-> ls]

UnifiedCacheDelete(s, ls, key) ==
    [store |-> MemoryCacheDelete(s, key),
     ls |-> LocalStorageCacheDelete(ls, key)]

---------------------------------------------------------------------------
(* The caller of the hook.                                                 *)

\* Two objects {} that are not the same object: "{}#1" is the one, "{}#2"
\* the other.
ObjectRefs == {"{}#1", "{}#2"}

\* JSON.stringify of one array element: null and undefined both give null,
\* an object its content, a string the string in quotes.
JSONStringifyElement(v) ==
    IF v \in {"null", "undefined"} THEN "null"
    ELSE IF v \in ObjectRefs THEN "{}"
    ELSE "\"" \o v \o "\""

RECURSIVE JSONStringifyElements(_)
JSONStringifyElements(deps) ==
    IF Len(deps) = 0 THEN ""
    ELSE IF Len(deps) = 1 THEN JSONStringifyElement(deps[1])
    ELSE JSONStringifyElement(deps[1]) \o "," \o JSONStringifyElements(Tail(deps))

\* JSON.stringify(dependencies)
JSONStringify(deps) == "[" \o JSONStringifyElements(deps) \o "]"

\* The cache key useSimpleCachedData builds for a dependency tuple:
\* generateCacheKey(cacheKeyPrefix, { deps: JSON.stringify(dependencies) }).
cacheKeyPrefix == "douban"
SimpleCacheKey(deps) == cacheKeyPrefix \o "-" \o "deps=" \o JSONStringify(deps)

\* What fetchFn of the render with dependency tuple deps resolves with when
\* it was invoked by fetch attempt rid.
FetchResult(deps, rid) == [for |-> deps, rid |-> rid]

\* The message of the error fetchFn rejects with.
ErrorMessage(rid) == <<"Error", rid>>

---------------------------------------------------------------------------
(* useCachedData.                                                          *)

\* clearTimeout(handle): the timer with this handle no longer fires.
ClearTimeout(ts, handle) == {t \in ts : t.id # handle}

\* A counter that is read but not incremented.
NextRequestIdSame(r) == r

\* The counter value fetchData takes: ++requestIdRef.current
NextRequestId(r) == r + 1

\* fetchData reading the cache whatever enableCache says.
ReadsCacheWhenDisabled(ignoreCache) == ~ignoreCache

\* fetchData reading the cache whatever ignoreCache says.
ReadsCacheAlways(ignoreCache) == enableCache

\* fetchData reads the cache first unless told to ignore it.
ReadsCache(ignoreCache) == enableCache /\ ~ignoreCache

\* The cache-hit test with the comparison of the snapshots inverted.
CacheHitValidInverted(storedParams, currentParams) ==
    storedParams # currentParams /\ isMountedRef

\* The test guarding the publication of a cache hit, evaluated right
\* after fetchData stored its own snapshot.
CacheHitValid(storedParams, currentParams) ==
    storedParams = currentParams /\ isMountedRef

\* ResponseValid without the mounted test.
ResponseValidNoMounted(p) ==
    /\ p.rid = requestIdRef
    /\ currentParamsRef = p.params

\* ResponseValid without the request id test.
ResponseValidNoRequestId(p) ==
    /\ currentParamsRef = p.params
    /\ isMountedRef

\* The three tests a resolved response passes before it is published.
ResponseValid(p) ==
    /\ p.rid = requestIdRef
    /\ currentParamsRef = p.params
    /\ isMountedRef

\* RejectionValid without the mounted test.
RejectionValidNoMounted(p) == p.rid = requestIdRef

\* RejectionValid without the request id test.
RejectionValidNoRequestId(p) == isMountedRef

\* The test a rejected response passes before its error is published.
RejectionValid(p) == p.rid = requestIdRef /\ isMountedRef

\* A state setter: React ignores it once the component is unmounted.
SetState(old, new) == IF isMountedRef THEN new ELSE old

\* fetchData(ignoreCache), as closed over by the render `render` whose
\* dependency tuple was deps, up to and including the call of fetchFn.
fetchData(render, deps, ignoreCache, op) ==
    LET currentRequestId == NextRequestId(requestIdRef)
        currentParams == JSONStringify(deps)
        cacheKey == SimpleCacheKey(deps)
        got == IF ReadsCache(ignoreCache)
               THEN UnifiedCacheGet(store, localStorage, cacheKey, now)
               ELSE [data |-> NullData, store |-> store, ls |-> localStorage]
        hit == got.data # NullData
        served == hit /\ CacheHitValid(currentParams, currentParams)
    IN /\ requestIdRef' = currentRequestId
       /\ currentParamsRef' = currentParams
       /\ store' = got.store
       /\ localStorage' = got.ls
       /\ IF served
          THEN /\ data' = got.data
               /\ fromCache' = TRUE
               /\ loading' = FALSE
               /\ error' = NullError
               /\ inflight' = inflight
          ELSE /\ loading' = SetState(loading, TRUE)
               /\ inflight' = Append(inflight,
                                 [rid |-> currentRequestId, params |-> currentParams,
                                  render |-> render, deps |-> deps,
                                  ignoreCache |-> ignoreCache])
               /\ UNCHANGED <<data, fromCache, error>>
       /\ last' = [op |-> op, rid |-> currentRequestId, render |-> render,
                   deps |-> deps, hit |-> hit, valid |-> served]

\* The sequence without its i-th element.
RemoveAt(q, i) == SubSeq(q, 1, i - 1) \o SubSeq(q, i + 1, Len(q))

\* The dependency tuple of render r: what fetchData, refresh and clearCache
\* returned by that render are closed over (cacheKey, fetchFn, dependencies).
DepsOf(r) == rendered[r + 1]

\* The caller calls the hook again with a changed dependency tuple: the
\* render returns state and functions to the caller; its effects run later.
\* React runs the effects of a render before it renders again.
Render(d) ==
    /\ isMountedRef
    /\ ~effectsPending
    /\ renders < MaxRenders
    /\ d # dependencies
    /\ dependencies' = d
    /\ renders' = renders + 1
    /\ rendered' = Append(rendered, d)
    /\ effectsPending' = TRUE
    /\ burst' = IF timers # {} THEN burst + 1 ELSE 1
    /\ fired' = 0
    /\ last' = [op |-> "render", rid |-> requestIdRef, render |-> renders + 1,
                   deps |-> d, hit |-> FALSE, valid |-> FALSE]
    /\ UNCHANGED <<enableCache, fetchOnMount, data, loading, error, fromCache,
                   debounceTimerRef, currentParamsRef, requestIdRef,
                   isMountedRef, timers, inflight, cacheVars, refreshed>>
    /\ UNCHANGED cacheHist
    /\ UNCHANGED versionVars

\* The effects of the latest render run: the cleanup of the previous run of
\* the debounce effect, then the effect itself.  The mount effect of the
\* first render sets isMountedRef, which is true already.
Effects ==
    /\ effectsPending
    /\ effectsPending' = FALSE
    /\ LET cleared == ClearTimeout(timers, debounceTimerRef)
           handle == renders + 1
       IN IF ~fetchOnMount /\ requestIdRef = 0
          THEN /\ loading' = FALSE
               /\ timers' = cleared
               /\ debounceTimerRef' = debounceTimerRef
          ELSE /\ loading' = loading
               /\ timers' = cleared \cup
                       {[id |-> handle, render |-> renders,
                         deps |-> dependencies]}
               /\ debounceTimerRef' = handle
    /\ last' = [op |-> "effect", rid |-> requestIdRef, render |-> renders,
                   deps |-> dependencies, hit |-> FALSE, valid |-> FALSE]
    /\ UNCHANGED <<enableCache, fetchOnMount, dependencies, renders, rendered,
                   data, error, fromCache, currentParamsRef, requestIdRef,
                   isMountedRef, inflight, cacheVars, burst, fired,
                   refreshed>>
    /\ UNCHANGED cacheHist
    /\ UNCHANGED versionVars

\* The debounce timer t fires: fetchData() of the render that set it.
TimerFire(t) ==
    /\ t \in timers
    /\ requestIdRef < MaxRequests
    /\ timers' = timers \ {t}
    /\ fetchData(t.render, t.deps, FALSE, "timer")
    /\ fired' = fired + 1
    /\ UNCHANGED <<enableCache, fetchOnMount, dependencies, renders, rendered,
                   effectsPending, debounceTimerRef, isMountedRef, now, burst,
                   refreshed>>
    /\ UNCHANGED cacheHist
    /\ UNCHANGED versionVars

\* refresh() as returned by render r, which the caller may have kept:
\* fetchData(true) of that render.
Refresh(r) ==
    /\ r \in 0..renders
    /\ requestIdRef < MaxRequests
    /\ fetchData(r, DepsOf(r), TRUE, "refresh")
    /\ refreshed' = requestIdRef'
    /\ UNCHANGED <<enableCache, fetchOnMount, dependencies, renders, rendered,
                   effectsPending, debounceTimerRef, isMountedRef, timers, now,
                   burst, fired>>
    /\ UNCHANGED cacheHist
    /\ UNCHANGED versionVars

\* clearCache() as returned by render r: globalCache.delete of the cacheKey
\* of that render.
ClearCache(r) ==
    /\ r \in 0..renders
    /\ LET c == UnifiedCacheDelete(store, localStorage,
                                   SimpleCacheKey(DepsOf(r)))
       IN store' = c.store /\ localStorage' = c.ls
    /\ last' = [op |-> "clearCache", rid |-> requestIdRef, render |-> r,
                   deps |-> DepsOf(r), hit |-> FALSE, valid |-> FALSE]
    /\ UNCHANGED <<hookVars, now, burst, fired, refreshed>>
    /\ UNCHANGED cacheHist
    /\ UNCHANGED versionVars

\* A write under the cache key of the latest render.
WriteKeyLatest(p) == SimpleCacheKey(dependencies)

\* The cacheKey the pending call p writes its result under: the one its
\* fetchData closed over, of the render that made it.
WriteKey(p) == SimpleCacheKey(p.deps)

\* fetchFn() of the i-th pending call resolves: fetchData continues after
\* the await.
ProducerResolve(i, quota) ==
    /\ i \in DOMAIN inflight
    /\ LET p == inflight[i]
           result == FetchResult(p.deps, p.rid)
           valid == ResponseValid(p)
       IN /\ inflight' = RemoveAt(inflight, i)
          /\ IF valid
             THEN /\ data' = result
                  /\ fromCache' = FALSE
                  /\ loading' = FALSE
                  /\ error' = NullError
                  /\ IF enableCache
                     THEN LET c == UnifiedCacheSet(store, localStorage,
                                       WriteKey(p), result, ttl, now,
                                       quota)
                          IN store' = c.store /\ localStorage' = c.ls
                     ELSE UNCHANGED <<store, localStorage>>
             ELSE UNCHANGED <<data, fromCache, loading, error, store,
                              localStorage>>
          /\ last' = [op |-> "resolve", rid |-> p.rid, render |-> p.render,
                   deps |-> p.deps, hit |-> FALSE, valid |-> valid]
    /\ UNCHANGED <<enableCache, fetchOnMount, dependencies, renders, rendered,
                   effectsPending, debounceTimerRef, currentParamsRef,
                   requestIdRef, isMountedRef, timers, now, burst, fired,
                   refreshed>>
    /\ UNCHANGED cacheHist
    /\ UNCHANGED versionVars

\* A catch block that also drops the cache entry of the failed fetch.
ProducerRejectEvicts(i) ==
    /\ i \in DOMAIN inflight
    /\ LET p == inflight[i]
           valid == RejectionValid(p)
           c == UnifiedCacheDelete(store, localStorage, SimpleCacheKey(p.deps))
       IN /\ inflight' = RemoveAt(inflight, i)
          /\ IF valid
             THEN /\ error' = ErrorMessage(p.rid)
                  /\ loading' = FALSE
             ELSE UNCHANGED <<error, loading>>
          /\ store' = c.store
          /\ localStorage' = c.ls
          /\ last' = [op |-> "reject", rid |-> p.rid, render |-> p.render,
                   deps |-> p.deps, hit |-> FALSE, valid |-> valid]
    /\ UNCHANGED <<enableCache, fetchOnMount, dependencies, renders, rendered,
                   effectsPending, data, fromCache, debounceTimerRef,
                   currentParamsRef, requestIdRef, isMountedRef, timers, now,
                   burst, fired, refreshed>>
    /\ UNCHANGED cacheHist
    /\ UNCHANGED versionVars

\* fetchFn() of the i-th pending call rejects: the catch block of fetchData.
ProducerReject(i) ==
    /\ i \in DOMAIN inflight
    /\ LET p == inflight[i]
           valid == RejectionValid(p)
       IN /\ inflight' = RemoveAt(inflight, i)
          /\ IF valid
             THEN /\ error' = ErrorMessage(p.rid)
                  /\ loading' = FALSE
             ELSE UNCHANGED <<error, loading>>
          /\ last' = [op |-> "reject", rid |-> p.rid, render |-> p.render,
                   deps |-> p.deps, hit |-> FALSE, valid |-> valid]
    /\ UNCHANGED <<enableCache, fetchOnMount, dependencies, renders, rendered,
                   effectsPending, data, fromCache, debounceTimerRef,
                   currentParamsRef, requestIdRef, isMountedRef, timers,
                   cacheVars, burst, fired, refreshed>>
    /\ UNCHANGED cacheHist
    /\ UNCHANGED versionVars

\* The component unmounts: the cleanups of both effects run.  React runs
\* the pending effects of a render before it commits the unmount.
Unmount ==
    /\ isMountedRef
    /\ ~effectsPending
    /\ isMountedRef' = FALSE
    /\ timers' = ClearTimeout(timers, debounceTimerRef)
    /\ last' = [op |-> "unmount", rid |-> requestIdRef, render |-> renders,
                   deps |-> dependencies, hit |-> FALSE, valid |-> FALSE]
    /\ UNCHANGED <<enableCache, fetchOnMount, dependencies, renders, rendered,
                   effectsPending, data, loading, error, fromCache,
                   debounceTimerRef, currentParamsRef, requestIdRef, inflight,
                   cacheVars, burst, fired, refreshed>>
    /\ UNCHANGED cacheHist
    /\ UNCHANGED versionVars

\* Time passes.
Tick ==
    /\ now < MaxTicks * TickMs
    /\ now' = now + TickMs
    /\ last' = [op |-> "tick", rid |-> requestIdRef, render |-> renders,
                   deps |-> dependencies, hit |-> FALSE, valid |-> FALSE]
    /\ UNCHANGED <<hookVars, store, localStorage, burst, fired, refreshed>>
    /\ UNCHANGED cacheHist
    /\ UNCHANGED versionVars

\* The state when the first call of the hook has returned to its caller:
\* the initial values of useState and useRef; no effect has run.
Init ==
    /\ enableCache \in BOOLEAN
    /\ fetchOnMount \in BOOLEAN
    /\ dependencies \in DepTuples
    /\ renders = 0
    /\ rendered = <<dependencies>>
    /\ data = NullData
    /\ loading = TRUE
    /\ error = NullError
    /\ fromCache = FALSE
    /\ debounceTimerRef = 0
    /\ currentParamsRef = JSONStringify(dependencies)
    /\ requestIdRef = 0
    /\ isMountedRef = TRUE
    /\ effectsPending = TRUE
    /\ timers = {}
    /\ inflight = <<>>
    /\ store = <<>>
    /\ localStorage = <<>>
    /\ now = 0
    /\ config = globalCache
    /\ recency = <<>>
    /\ written = <<>>
    /\ burst = 0
    /\ fired = 0
    /\ refreshed = 0
    /\ VersionIdle
    /\ last = [op |-> "mount", rid |-> 0, render |-> 0,
                   deps |-> dependencies, hit |-> FALSE, valid |-> FALSE]

Next ==
    \/ \E d \in DepTuples : Render(d)
    \/ Effects
    \/ \E t \in timers : TimerFire(t)
    \/ \E r \in 0..renders : Refresh(r)
    \/ \E r \in 0..renders : ClearCache(r)
    \/ \E i \in DOMAIN inflight, quota \in Quotas : ProducerResolve(i, quota)
    \/ \E i \in DOMAIN inflight : ProducerReject(i)
    \/ Unmount
    \/ Tick

Spec == Init /\ [][Next]_vars

---------------------------------------------------------------------------
(* A UnifiedCache used directly: the calls of its methods, the passing of  *)
(* time and the reload of the page, which empties the memory tier and      *)
(* keeps window.localStorage.  No hook is mounted.                         *)

\* Date.now() advances at most this many times.
MaxCacheTicks == 1

\* One advance of the clock, in milliseconds: one second and a half.
CacheTickMs == 1500

\* The keys the cache is called with.
CacheKeys == {"k1", "k2"}

\* The values stored.
CacheValues == {FetchResult(<<"a">>, 1), FetchResult(<<"a">>, 2)}

\* The ttlSeconds a set is called with.
CacheTTLs == {1, 2}

\* An item of localStorage that JSON.parse rejects.
CorruptItem ==
    [parses |-> FALSE, empty |-> FALSE,
     entry |-> [data |-> NullData, timestamp |-> 0, ttl |-> 0]]

\* An item of localStorage that is the empty string, which JSON.parse
\* would reject too.
EmptyItem ==
    [parses |-> FALSE, empty |-> TRUE,
     entry |-> [data |-> NullData, timestamp |-> 0, ttl |-> 0]]

\* What window.localStorage holds when the cache is constructed: nothing, or
\* under the full key of k1 an item left by an earlier session, which is
\* either unparseable or an entry just written with a ttl of two seconds.
InitialStorages ==
    {<<>>} \cup
    {setItem(<<>>, getFullKey("k1"), item) :
        item \in {CorruptItem,
                  [parses |-> TRUE, empty |-> FALSE,
                   entry |-> [data |-> FetchResult(<<"a">>, 1), timestamp |-> 0,
                              ttl |-> 2]]}}

\* The configurations of the cache: each tier on or off, a memory tier of
\* two entries, a default TTL of two seconds.
CacheConfigs ==
    {[enableMemory |-> m, enableLocalStorage |-> l, defaultTTL |-> 2,
      maxMemoryEntries |-> 2] : m \in BOOLEAN, l \in BOOLEAN}

\* The history of touches after key was set or read, the memory tier
\* being s afterwards.
Touch(r, key, s) ==
    LET keys == {s[i].key : i \in 1..Len(s)}
        moved == Append(SelectSeq(r, LAMBDA k : k # key), key)
    IN SelectSeq(moved, LAMBDA k : k \in keys)

\* The history of touches once the memory tier has become s.
Forget(r, s) ==
    LET keys == {s[i].key : i \in 1..Len(s)}
    IN SelectSeq(r, LAMBDA k : k \in keys)

\* cache.set(key, value, ttlSeconds)
CacheSet(key, value, ttlSeconds, quota) ==
    /\ LET c == UnifiedCacheSet(store, localStorage, key, value, ttlSeconds,
                                now, quota)
       IN /\ store' = c.store
          /\ localStorage' = c.ls
          /\ recency' = Touch(recency, key, c.store)
    /\ written' = [k \in (DOMAIN written) \cup {key} |->
                     IF k = key
                     THEN [data |-> value, timestamp |-> now,
                           ttl |-> ttlSeconds]
                     ELSE written[k]]
    /\ last' = [op |-> "set", key |-> key, data |-> value, tier |-> "none",
                quota |-> quota, parseError |-> FALSE]
    /\ UNCHANGED versionVars
    /\ UNCHANGED <<hookVars, now, config, burst, fired, refreshed>>

\* cache.get(key)
CacheGet(key) ==
    /\ LET m == MemoryCacheGet(store, key, now)
           c == UnifiedCacheGet(store, localStorage, key, now)
       IN /\ store' = c.store
          /\ localStorage' = c.ls
          /\ recency' = Touch(recency, key, c.store)
          /\ last' = [op |-> "get", key |-> key, data |-> c.data,
                      tier |-> IF enableMemory /\ m.data # NullData
                               THEN "memory"
                               ELSE IF c.data # NullData THEN "localStorage"
                               ELSE "none",
                      quota |-> "ok",
                      parseError |->
                          /\ enableLocalStorage
                          /\ ~(enableMemory /\ m.data # NullData)
                          /\ getFullKey(key) \in DOMAIN localStorage
                          /\ ~localStorage[getFullKey(key)].empty
                          /\ ~localStorage[getFullKey(key)].parses]
    /\ UNCHANGED versionVars
    /\ UNCHANGED <<hookVars, now, config, written, burst, fired, refreshed>>

\* cache.delete(key)
CacheDelete(key) ==
    /\ LET c == UnifiedCacheDelete(store, localStorage, key)
       IN /\ store' = c.store
          /\ localStorage' = c.ls
          /\ recency' = Forget(recency, c.store)
    /\ written' = [k \in (DOMAIN written) \ {key} |-> written[k]]
    /\ last' = [op |-> "delete", key |-> key, data |-> NullData,
                tier |-> IF MemoryHas(store, key)
                         THEN IF getFullKey(key) \in DOMAIN localStorage
                              THEN "both" ELSE "memory"
                         ELSE IF getFullKey(key) \in DOMAIN localStorage
                              THEN "localStorage" ELSE "none",
                quota |-> "ok",
                parseError |-> FALSE]
    /\ UNCHANGED versionVars
    /\ UNCHANGED <<hookVars, now, config, burst, fired, refreshed>>

\* cache.clear()
CacheClear ==
    /\ LET c == UnifiedCacheClear(store, localStorage)
       IN /\ store' = c.store
          /\ localStorage' = c.ls
          /\ recency' = Forget(recency, c.store)
    /\ written' = <<>>
    /\ last' = [op |-> "clear", key |-> "", data |-> NullData,
                tier |-> "none", quota |-> "ok",
                parseError |-> FALSE]
    /\ UNCHANGED versionVars
    /\ UNCHANGED <<hookVars, now, config, burst, fired, refreshed>>

\* cache.cleanExpired()
CacheCleanExpired ==
    /\ LET c == UnifiedCacheCleanExpired(store, localStorage, now)
       IN /\ store' = c.store
          /\ localStorage' = c.ls
    /\ last' = [op |-> "cleanExpired", key |-> "", data |-> NullData,
                tier |-> "none", quota |-> "ok",
                parseError |-> FALSE]
    /\ UNCHANGED versionVars
    /\ UNCHANGED <<hookVars, now, cacheHist, burst, fired, refreshed>>

\* The page is reloaded: the module is evaluated again and the cache is
\* constructed anew with an empty Map; window.localStorage is kept.
PageReload ==
    /\ store' = <<>>
    /\ recency' = <<>>
    /\ last' = [op |-> "reload", key |-> "", data |-> NullData,
                tier |-> "none", quota |-> "ok",
                parseError |-> FALSE]
    /\ UNCHANGED versionVars
    /\ UNCHANGED <<hookVars, localStorage, now, config, written, burst,
                   fired, refreshed>>

\* Time passes.
CacheTick ==
    /\ now < MaxCacheTicks * CacheTickMs
    /\ now' = now + CacheTickMs
    /\ last' = [op |-> "tick", key |-> "", data |-> NullData,
                tier |-> "none", quota |-> "ok",
                parseError |-> FALSE]
    /\ UNCHANGED versionVars
    /\ UNCHANGED <<hookVars, store, localStorage, cacheHist, burst, fired,
                   refreshed>>

\* The state after the construction of the cache.
CacheInit ==
    /\ enableCache = TRUE
    /\ fetchOnMount = FALSE
    /\ dependencies = <<"a">>
    /\ renders = 0
    /\ rendered = <<dependencies>>
    /\ data = NullData
    /\ loading = FALSE
    /\ error = NullError
    /\ fromCache = FALSE
    /\ debounceTimerRef = 0
    /\ currentParamsRef = ""
    /\ requestIdRef = 0
    /\ isMountedRef = FALSE
    /\ effectsPending = FALSE
    /\ timers = {}
    /\ inflight = <<>>
    /\ store = <<>>
    /\ localStorage \in InitialStorages
    /\ now = 0
    /\ config \in CacheConfigs
    /\ recency = <<>>
    /\ written = <<>>
    /\ burst = 0
    /\ fired = 0
    /\ refreshed = 0
    /\ VersionIdle
    /\ last = [op |-> "new", key |-> "", data |-> NullData, tier |-> "none",
               quota |-> "ok",
                parseError |-> FALSE]

CacheNext ==
    \/ \E key \in CacheKeys, value \in CacheValues, ttlSeconds \in CacheTTLs,
          quota \in Quotas : CacheSet(key, value, ttlSeconds, quota)
    \/ \E key \in CacheKeys : CacheGet(key)
    \/ \E key \in CacheKeys : CacheDelete(key)
    \/ CacheClear
    \/ CacheCleanExpired
    \/ PageReload
    \/ CacheTick

CacheSpec == CacheInit /\ [][CacheNext]_vars

---------------------------------------------------------------------------
(* The memory tier alone: a UnifiedCache of two or three memory entries    *)
(* without the localStorage tier, called with three keys, one of them ''.  *)

\* The keys the memory tier is called with; "" is the empty string ''.
LruKeys == {"", "k1", "k2"}

LruConfigs ==
    {[enableMemory |-> TRUE, enableLocalStorage |-> FALSE, defaultTTL |-> 2,
      maxMemoryEntries |-> c] : c \in {2, 3}}

\* The state after the construction of the cache.
LruInit ==
    /\ enableCache = TRUE
    /\ fetchOnMount = FALSE
    /\ dependencies = <<"a">>
    /\ renders = 0
    /\ rendered = <<dependencies>>
    /\ data = NullData
    /\ loading = FALSE
    /\ error = NullError
    /\ fromCache = FALSE
    /\ debounceTimerRef = 0
    /\ currentParamsRef = ""
    /\ requestIdRef = 0
    /\ isMountedRef = FALSE
    /\ effectsPending = FALSE
    /\ timers = {}
    /\ inflight = <<>>
    /\ store = <<>>
    /\ localStorage = <<>>
    /\ now = 0
    /\ config \in LruConfigs
    /\ recency = <<>>
    /\ written = <<>>
    /\ burst = 0
    /\ fired = 0
    /\ refreshed = 0
    /\ VersionIdle
    /\ last = [op |-> "new", key |-> "", data |-> NullData, tier |-> "none",
               quota |-> "ok",
                parseError |-> FALSE]

LruNext ==
    \/ \E key \in LruKeys, value \in CacheValues, ttlSeconds \in CacheTTLs :
          CacheSet(key, value, ttlSeconds, "ok")
    \/ \E key \in LruKeys : CacheGet(key)
    \/ \E key \in LruKeys : CacheDelete(key)
    \/ CacheClear
    \/ CacheTick

LruSpec == LruInit /\ [][LruNext]_vars

---------------------------------------------------------------------------
(* generateCacheKey.  A parameter map is the sequence of its entries in    *)
(* the order of Object.entries, which for keys that are not integers is    *)
(* the order of insertion.  A value is [t, s]: its type and the string     *)
(* `${value}` gives.  A key is written as its JavaScript string literal:   *)
(* "\\u00e9" is the one code unit U+00E9 (e with acute) and "e\\u0301" is   *)
(* the letter e followed by U+0301 (combining acute), which the Unicode    *)
(* standard holds canonically equivalent to it.                            *)

\* A parameter map has at most this many entries.
MaxParams == 3

KeyPrefixes == {"douban", ""}

KeyNames == {"a", "B", "\\u00e9", "e\\u0301"}

ParamValues ==
    {[t |-> "undefined", s |-> "undefined"], [t |-> "string", s |-> ""],
     [t |-> "string", s |-> "x"], [t |-> "number", s |-> "1"],
     [t |-> "string", s |-> "1"], [t |-> "string", s |-> "x&B=x"]}

\* The parameter maps: sequences of entries with distinct keys.
ParamMaps ==
    {m \in UNION {[1..n -> [key : KeyNames, value : ParamValues]] :
                    n \in 0..MaxParams} :
        \A i, j \in 1..Len(m) : m[i].key = m[j].key => i = j}

\* The UTF-16 code units of a key.
CodeUnits(name) ==
    CASE name = "a" -> <<97>>
      [] name = "B" -> <<66>>
      [] name = "\\u00e9" -> <<233>>
      [] name = "e\\u0301" -> <<101, 769>>

\* The place of a key in the collation order of localeCompare: letters in
\* alphabetical order whatever their case, an accented letter after the
\* plain ones before it, canonically equivalent strings at the same place.
CollationRank(name) ==
    CASE name = "a" -> 1
      [] name = "B" -> 2
      [] name = "\\u00e9" -> 3
      [] name = "e\\u0301" -> 3

\* a.localeCompare(b): negative, zero or positive.
localeCompare(a, b) ==
    IF CollationRank(a) < CollationRank(b) THEN -1
    ELSE IF CollationRank(a) > CollationRank(b) THEN 1
    ELSE 0

\* .filter(([, value]) => value !== undefined && value !== '')
FilterParams(params) ==
    SelectSeq(params, LAMBDA e : /\ e.value.t # "undefined"
                                 /\ ~(e.value.t = "string" /\ e.value.s = ""))

\* The entry e put into the sorted sequence, behind the entries that do
\* not compare greater than it: Array.prototype.sort is stable.
RECURSIVE InsertSorted(_, _)
InsertSorted(sorted, e) ==
    IF Len(sorted) = 0 THEN <<e>>
    ELSE IF localeCompare(e.key, sorted[Len(sorted)].key) < 0
         THEN Append(InsertSorted(SubSeq(sorted, 1, Len(sorted) - 1), e),
                     sorted[Len(sorted)])
         ELSE Append(sorted, e)

\* .sort(([a], [b]) => a.localeCompare(b))
RECURSIVE SortParams(_)
SortParams(entries) ==
    IF Len(entries) = 0 THEN <<>>
    ELSE InsertSorted(SortParams(SubSeq(entries, 1, Len(entries) - 1)),
                      entries[Len(entries)])

\* .map(([key, value]) => `${key}=${value}`).join('&')
RECURSIVE JoinParams(_)
JoinParams(entries) ==
    IF Len(entries) = 0 THEN ""
    ELSE IF Len(entries) = 1
         THEN entries[1].key \o "=" \o entries[1].value.s
         ELSE entries[1].key \o "=" \o entries[1].value.s \o "&"
              \o JoinParams(Tail(entries))

generateCacheKey(prefix, params) ==
    prefix \o "-" \o JoinParams(SortParams(FilterParams(params)))

\* The call generateCacheKey(last.prefix, last.params) and its result.
GenerateCacheKey ==
    /\ last.op = "new"
    /\ last' = [last EXCEPT !.op = "generateCacheKey",
                            !.key = generateCacheKey(last.prefix, last.params)]
    /\ UNCHANGED versionVars
    /\ UNCHANGED <<hookVars, cacheVars, cacheHist, burst, fired, refreshed>>

\* The arguments of a call that has not been made yet; no hook is mounted
\* and the cache is empty.
KeyInit ==
    /\ enableCache = TRUE
    /\ fetchOnMount = FALSE
    /\ dependencies = <<"a">>
    /\ renders = 0
    /\ rendered = <<dependencies>>
    /\ data = NullData
    /\ loading = FALSE
    /\ error = NullError
    /\ fromCache = FALSE
    /\ debounceTimerRef = 0
    /\ currentParamsRef = ""
    /\ requestIdRef = 0
    /\ isMountedRef = FALSE
    /\ effectsPending = FALSE
    /\ timers = {}
    /\ inflight = <<>>
    /\ store = <<>>
    /\ localStorage = <<>>
    /\ now = 0
    /\ config = globalCache
    /\ recency = <<>>
    /\ written = <<>>
    /\ burst = 0
    /\ fired = 0
    /\ refreshed = 0
    /\ VersionIdle
    /\ last \in [op : {"new"}, prefix : KeyPrefixes, params : ParamMaps,
                key : {""}]

KeyNext == GenerateCacheKey

KeySpec == KeyInit /\ [][KeyNext]_vars

---------------------------------------------------------------------------
(* Properties.                                                             *)

\* The memory tier holds value under key, stored now with ttlSeconds.
MemoryHolds(s, key, value, ttlSeconds, t) ==
    /\ MemoryHas(s, key)
    /\ MemoryEntry(s, key) = [key |-> key, data |-> value, timestamp |-> t,
                              ttl |-> ttlSeconds]

\* The pending call p fails one of the tests of the stale-response guard.
Stale(p) ==
    \/ p.rid # requestIdRef
    \/ p.params # currentParamsRef
    \/ ~isMountedRef

\* The step publishes value as a fresh (not cached) result.
Publishes(value) ==
    /\ data' = value
    /\ fromCache' = FALSE
    /\ error' = NullError
    /\ loading' = FALSE

\* C1, as stated: a resolved response is discarded without any change of
\* data, loading, error, fromCache or the cache when its request id or its
\* snapshot is no longer current or the component is unmounted; otherwise it
\* is published and written to the cache with ttl.
C1_GuardAlwaysWrites ==
    [][\A i \in DOMAIN inflight : \A q \in Quotas :
         ProducerResolve(i, q) =>
            LET p == inflight[i]
                value == FetchResult(p.deps, p.rid)
            IN IF Stale(p)
               THEN UNCHANGED <<data, loading, error, fromCache, store,
                                localStorage>>
               ELSE /\ Publishes(value)
                    /\ MemoryHolds(store', SimpleCacheKey(p.deps), value, ttl,
                                   now)]_vars

\* C1, amended: as above, but the cache is written only when enableCache is
\* set; without it a valid response is published and the cache is left as
\* it was.
C1_StaleResponseGuard ==
    [][\A i \in DOMAIN inflight : \A q \in Quotas :
         ProducerResolve(i, q) =>
            LET p == inflight[i]
                value == FetchResult(p.deps, p.rid)
            IN IF Stale(p)
               THEN UNCHANGED <<data, loading, error, fromCache, store,
                                localStorage>>
               ELSE /\ Publishes(value)
                    /\ IF enableCache
                       THEN MemoryHolds(store', SimpleCacheKey(p.deps), value,
                                        ttl, now)
                       ELSE UNCHANGED <<store, localStorage>>]_vars

\* A response was discarded because a later fetch attempt had started, the
\* component still being mounted.
C1_Witness ==
    /\ last.op = "resolve"
    /\ ~last.valid
    /\ last.rid < requestIdRef
    /\ isMountedRef

\* C2, as stated: whenever a value is published, from the cache or from a
\* producer, it was produced for the dependency tuple of the latest render.
C2_NoStalePublication ==
    (last.op \in {"timer", "refresh", "resolve"} /\ last.valid)
        => data.for = dependencies

\* The i-th pending call resolves or rejects.
Settles(i) == (\E q \in Quotas : ProducerResolve(i, q)) \/ ProducerReject(i)

\* C3: once a later fetch attempt has been dispatched, the resolution or
\* rejection of an earlier producer changes neither data, loading, error,
\* fromCache nor the cache, in whatever order the producers complete.
C3_RaceSafety ==
    [][\A i \in DOMAIN inflight :
         (Settles(i) /\ inflight[i].rid < requestIdRef)
            => UNCHANGED <<data, loading, error, fromCache, store,
                           localStorage>>]_vars

\* The producer of an earlier dependency tuple resolved after the producer
\* of the later tuple had resolved and been published.
C3_Witness ==
    /\ last.op = "resolve"
    /\ ~last.valid
    /\ data # NullData
    /\ ~fromCache
    /\ data.rid > last.rid
    /\ data.for # last.deps
    /\ data.for = dependencies

\* C4, as stated: when the hook observes a change of the dependencies (the
\* debounce effect of the render runs), the pending timer is cancelled, the
\* request id is incremented and exactly one timer is set, so that a
\* producer dispatched before the change fails the request id test from
\* then on.
C4_ChangeAdvancesEpoch ==
    [][(Effects /\ renders > 0) =>
            /\ timers' \cap timers = {}
            /\ Cardinality(timers') = 1
            /\ requestIdRef' = requestIdRef + 1
            /\ \A i \in DOMAIN inflight : inflight[i].rid # requestIdRef']_vars

\* Producer calls made by the timer of render r that are still pending.
TimerCalls(r) ==
    {i \in DOMAIN inflight : ~inflight[i].ignoreCache /\ inflight[i].render = r}

\* C5, as stated: after two or more dependency changes, each arriving
\* while the timer of the one before was pending, at most one timer has
\* fired since the latest change, a timer that fires is the timer of the
\* final dependency tuple, no timer of a superseded change has called the
\* producer, the timer of the final change has called it at most once, for
\* the final tuple, and once the effects of the final change have run
\* exactly one timer is pending or has fired (none once unmounted), the
\* timer of the final tuple.
C5_DebounceCoalescing ==
    burst >= 2 =>
        /\ fired <= 1
        /\ last.op = "timer" =>
              last.render = renders /\ last.deps = dependencies
        /\ \A r \in (renders - burst + 1)..(renders - 1) :
              TimerCalls(r) = {}
        /\ Cardinality(TimerCalls(renders)) <= 1
        /\ \A i \in TimerCalls(renders) :
              inflight[i].deps = dependencies
        /\ ~effectsPending =>
              /\ Cardinality(timers) + fired <= 1
              /\ isMountedRef => Cardinality(timers) + fired = 1
              /\ \A t \in timers :
                    t.render = renders /\ t.deps = dependencies

\* C6: when a timer fires with enableCache set and the cache holds the key,
\* the cached value is published with fromCache set, loading reset and the
\* error cleared, and the producer is not called.
C6_CacheFirst ==
    [][\A t \in timers :
         (TimerFire(t) /\ enableCache) =>
            LET got == UnifiedCacheGet(store, localStorage,
                                       SimpleCacheKey(t.deps), now)
            IN got.data # NullData =>
                  /\ data' = got.data
                  /\ fromCache'
                  /\ ~loading'
                  /\ error' = NullError
                  /\ inflight' = inflight]_vars

\* A timer fired on a cache hit and the cached value of the current tuple
\* is shown.
C6_Witness ==
    /\ last.op = "timer"
    /\ last.hit
    /\ enableCache
    /\ fromCache
    /\ data.for = dependencies

\* C7, as stated: no two producer calls are pending for the same cache key.
C7_SingleFlightPerKey ==
    \A i, j \in DOMAIN inflight :
        SimpleCacheKey(inflight[i].deps) = SimpleCacheKey(inflight[j].deps)
            => i = j

\* C7, amended: several producer calls may be pending for the same key, but
\* at most one pending call passes the guard, so at most one of them can be
\* published or cached.
C7_OneValidInFlight ==
    Cardinality({i \in DOMAIN inflight : ResponseValid(inflight[i])}) <= 1

\* Two producer calls are pending for the same key, one of them valid.
C7_Witness ==
    \E i, j \in DOMAIN inflight :
        /\ i # j
        /\ inflight[i].deps = inflight[j].deps
        /\ ResponseValid(inflight[j])
        /\ ~ResponseValid(inflight[i])

\* C8: refresh() leaves the cache, the published data and the pending timer
\* as they are and calls the producer at once under the next request id,
\* also when the cache holds the key; called right after clearCache() it
\* finds no entry of the key in either tier.
C8_RefreshBypassesCache ==
    [][\A r \in 0..renders :
         Refresh(r) =>
            /\ requestIdRef' = requestIdRef + 1
            /\ inflight' = Append(inflight,
                                  [rid |-> requestIdRef + 1,
                                   params |-> JSONStringify(DepsOf(r)),
                                   render |-> r, deps |-> DepsOf(r),
                                   ignoreCache |-> TRUE])
            /\ UNCHANGED <<store, localStorage, data, fromCache, error,
                           timers>>
            /\ (last.op = "clearCache" /\ last.render = r) =>
                  LET cacheKey == SimpleCacheKey(DepsOf(r))
                  IN /\ ~MemoryHas(store', cacheKey)
                     /\ getFullKey(cacheKey) \notin DOMAIN localStorage'
       ]_vars

\* refresh() was called while the cache held the key and a timer was
\* pending, and the producer was called.
C8_Witness ==
    /\ last.op = "refresh"
    /\ enableCache
    /\ timers # {}
    /\ MemoryHas(store, SimpleCacheKey(last.deps))
    /\ \E i \in DOMAIN inflight :
          inflight[i].rid = requestIdRef /\ inflight[i].ignoreCache

\* C9, as stated, for the latest refresh() and with enableCache set: when
\* its producer resolves while the component is mounted and the
\* dependencies are those of the call, the value is published and written
\* to the cache.
C9_RefreshAlwaysLands ==
    [][\A i \in DOMAIN inflight : \A q \in Quotas :
         (/\ ProducerResolve(i, q)
          /\ enableCache
          /\ isMountedRef
          /\ inflight[i].ignoreCache
          /\ inflight[i].rid = refreshed
          /\ inflight[i].render = renders)
            => LET value == FetchResult(inflight[i].deps, inflight[i].rid)
               IN /\ Publishes(value)
                  /\ MemoryHolds(store', SimpleCacheKey(inflight[i].deps),
                                 value, ttl, now)]_vars

\* Nothing is published and the cache is not written.
NothingPublished ==
    /\ UNCHANGED <<data, loading, error, fromCache>>
    /\ last'.op # "clearCache" => UNCHANGED <<store, localStorage>>

\* C10, as stated: unmounting cancels the pending timer and increments the
\* request id; afterwards no timer fires, nothing is published and the
\* cache is not written.
C10_TeardownAdvancesEpoch ==
    [][/\ Unmount => (timers' = {} /\ requestIdRef' = requestIdRef + 1)
       /\ ~isMountedRef => (timers' = {} /\ NothingPublished)]_vars

\* C10, amended: unmounting cancels the pending timer and resets
\* isMountedRef, leaving the request id as it is; afterwards the component
\* stays unmounted, no timer fires, nothing is published and the cache is
\* not written (only clearCache still deletes from it).
C10_Teardown ==
    [][/\ Unmount => (/\ timers' = {}
                      /\ ~isMountedRef'
                      /\ requestIdRef' = requestIdRef)
       /\ ~isMountedRef => (/\ ~isMountedRef'
                            /\ timers' = {}
                            /\ NothingPublished)]_vars

\* A response carrying the current request id and snapshot was discarded
\* after the component had unmounted with a timer pending.
C10_Witness ==
    /\ ~isMountedRef
    /\ last.op = "resolve"
    /\ ~last.valid
    /\ last.rid = requestIdRef
    /\ debounceTimerRef # 0
    /\ fired = 0

\* C11: a rejection is filtered like a resolution.  The rejection of the
\* fetch whose request id and snapshot are still current, the component
\* being mounted, publishes the error and sets loading to false; the
\* rejection of a superseded or unmounted fetch changes no state of the
\* hook and nothing in the cache.
C11_RejectionFiltered ==
    [][\A i \in DOMAIN inflight :
         ProducerReject(i) =>
            LET p == inflight[i]
            IN IF Stale(p)
               THEN UNCHANGED <<data, loading, error, fromCache, requestIdRef,
                                currentParamsRef, debounceTimerRef, timers,
                                isMountedRef, store, localStorage>>
               ELSE /\ error' = ErrorMessage(p.rid)
                    /\ loading' = FALSE]_vars

\* The fetch of the current request id was rejected while the hook was
\* loading, and its error is now published.
C11_Witness ==
    /\ last.op = "reject"
    /\ last.valid
    /\ last.rid = requestIdRef
    /\ error = ErrorMessage(last.rid)
    /\ ~loading

\* C12: a producer failure leaves the cache untouched.  Over a rejection,
\* valid or stale, both tiers are unchanged, so for every key a get returns
\* after the rejection what it returned before it.
C12_FailureKeepsCache ==
    [][\A i \in DOMAIN inflight :
         ProducerReject(i) =>
            /\ UNCHANGED <<store, localStorage>>
            /\ \A d \in DepTuples :
                  UnifiedCacheGet(store', localStorage', SimpleCacheKey(d),
                                  now').data
                  = UnifiedCacheGet(store, localStorage, SimpleCacheKey(d),
                                    now).data]_vars

\* A refresh of a key with a cached good value was rejected and its error
\* published; a get of that key still returns the good value.
C12_Witness ==
    /\ last.op = "reject"
    /\ last.valid
    /\ error # NullError
    /\ UnifiedCacheGet(store, localStorage, SimpleCacheKey(last.deps),
                       now).data = FetchResult(last.deps, 1)
    /\ last.rid = 2

\* What clearCache() of render r does when it deletes key: the entry of
\* key leaves both tiers and every other entry, data, loading, error,
\* fromCache, the request id, the pending timer and the pending producers
\* are unchanged.
DeletesOnly(key) ==
    /\ ~MemoryHas(store', key)
    /\ store' = SelectSeq(store, LAMBDA e : e.key # key)
    /\ DOMAIN localStorage' = (DOMAIN localStorage) \ {getFullKey(key)}
    /\ \A k \in DOMAIN localStorage' : localStorage'[k] = localStorage[k]
    /\ UNCHANGED <<data, loading, error, fromCache, requestIdRef,
                   currentParamsRef, debounceTimerRef, timers, inflight,
                   isMountedRef>>

\* A pending producer that resolves right after a clearCache() and passes
\* the guard is published, and written to the cache when enableCache is
\* set, as without the clearCache().
LandsAfterClearCache ==
    \A i \in DOMAIN inflight : \A q \in Quotas :
        (last.op = "clearCache" /\ ProducerResolve(i, q)
            /\ ~Stale(inflight[i]))
           => LET p == inflight[i]
                  value == FetchResult(p.deps, p.rid)
              IN /\ Publishes(value)
                 /\ enableCache =>
                       MemoryHolds(store', SimpleCacheKey(p.deps), value,
                                   ttl, now)

\* C13, as stated: every clearCache() deletes the cache entry of the key of
\* the hook, which is the key of the latest render, and changes nothing
\* else; a pending producer that passes the guard still lands.
C13_ClearCacheCurrentKey ==
    [][/\ (\E r \in 0..renders : ClearCache(r)) =>
             DeletesOnly(SimpleCacheKey(dependencies))
       /\ LandsAfterClearCache]_vars

\* C13, amended: clearCache() deletes the cache entry of the key of the
\* render that returned it, which is the key of the hook only while that
\* render is the latest one, and changes nothing else: every other entry,
\* data, loading, error, fromCache, the request id, the pending timer and
\* the pending producers are unchanged; a pending producer that passes the
\* guard still lands.
C13_ClearCacheFrame ==
    [][/\ \A r \in 0..renders :
             ClearCache(r) => DeletesOnly(SimpleCacheKey(DepsOf(r)))
       /\ LandsAfterClearCache]_vars

\* clearCache() kept from an earlier render deleted the cached value of
\* that render's tuple while a refresh was pending and a value was
\* published; the value of the latest tuple is still cached.
C13_Witness ==
    /\ last.op = "clearCache"
    /\ last.render < renders
    /\ data # NullData
    /\ inflight # <<>>
    /\ ~MemoryHas(store, SimpleCacheKey(last.deps))
    /\ getFullKey(SimpleCacheKey(last.deps)) \notin DOMAIN localStorage
    /\ MemoryHas(store, SimpleCacheKey(dependencies))

\* The keys stored in the memory tier s.
KeySet(s) == {s[i].key : i \in 1..Len(s)}

\* C14, as stated: get(key) reads the memory tier first and localStorage
\* only when the memory tier misses; on a localStorage hit it returns the
\* stored value after inserting it into the memory tier with the ttl of the
\* localStorage entry, so that the inserted entry expires no later than
\* that one.
C14_BackfillKeepsTTL ==
    [][\A key \in CacheKeys :
         CacheGet(key) =>
            LET m == MemoryCacheGet(store, key, now)
                l == LocalStorageCacheGet(localStorage, key, now)
                memoryHit == enableMemory /\ m.data # NullData
                durableHit == enableLocalStorage /\ l.data # NullData
            IN /\ memoryHit =>
                    (last'.data = m.data /\ localStorage' = localStorage)
               /\ (~memoryHit /\ durableHit) =>
                    LET durable == localStorage[getFullKey(key)].entry
                    IN /\ last'.data = durable.data
                       /\ enableMemory =>
                            /\ MemoryHas(store', key)
                            /\ LET e == MemoryEntry(store', key)
                               IN /\ e.data = durable.data
                                  /\ e.ttl = durable.ttl
                                  /\ e.timestamp + e.ttl * 1000
                                       <= durable.timestamp
                                          + durable.ttl * 1000
               /\ (~memoryHit /\ ~durableHit) => last'.data = NullData]_vars

\* C15, as stated: a get of a key never returns the value of the latest
\* set of that key more than the ttl of that set after it, whatever gets,
\* evictions, reloads and backfills came in between.
C15_BoundedLifetime ==
    (/\ last.op = "get"
     /\ last.key \in DOMAIN written
     /\ last.data = written[last.key].data)
        => now - written[last.key].timestamp <= written[last.key].ttl * 1000

\* C16: in either tier a get misses when the key is absent or more than
\* ttl seconds have passed since the entry was stored, and the expired
\* entry is then deleted from the tier; otherwise it returns the stored
\* value and keeps the entry.  localStorage is read when the memory tier
\* is disabled or missed; an item that is the empty string reads as
\* absent and stays.
C16_TTLExpiry ==
    [][\A key \in CacheKeys :
         CacheGet(key) =>
            LET fullKey == getFullKey(key)
                memoryLive ==
                    /\ enableMemory
                    /\ MemoryHas(store, key)
                    /\ now - MemoryEntry(store, key).timestamp
                         <= MemoryEntry(store, key).ttl * 1000
                durableLive ==
                    /\ fullKey \in DOMAIN localStorage
                    /\ localStorage[fullKey].parses
                    /\ now - localStorage[fullKey].entry.timestamp
                         <= localStorage[fullKey].entry.ttl * 1000
            IN /\ enableMemory =>
                    IF memoryLive
                    THEN /\ last'.tier = "memory"
                         /\ last'.data = MemoryEntry(store, key).data
                         /\ MemoryHas(store', key)
                         /\ MemoryEntry(store', key) = MemoryEntry(store, key)
                    ELSE /\ last'.tier # "memory"
                         /\ MemoryCacheGet(store, key, now).data = NullData
                         /\ MemoryHas(store', key) =>
                               /\ last'.tier = "localStorage"
                               /\ MemoryEntry(store', key).timestamp = now
               /\ (enableLocalStorage /\ ~memoryLive) =>
                    IF durableLive
                    THEN /\ last'.tier = "localStorage"
                         /\ last'.data = localStorage[fullKey].entry.data
                         /\ localStorage' = localStorage
                    ELSE /\ last'.tier = "none"
                         /\ last'.data = NullData
                         /\ IF /\ fullKey \in DOMAIN localStorage
                               /\ localStorage[fullKey].empty
                            THEN localStorage' = localStorage
                            ELSE fullKey \notin DOMAIN localStorage'
                         /\ \A k \in (DOMAIN localStorage) \ {fullKey} :
                               /\ k \in DOMAIN localStorage'
                               /\ localStorage'[k] = localStorage[k]]_vars

\* A get missed one and a half seconds after the key had been set with a
\* ttl of one second in both tiers, and neither tier holds the key any
\* more.
C16_Witness ==
    /\ last.op = "get"
    /\ last.tier = "none"
    /\ enableMemory
    /\ enableLocalStorage
    /\ last.key \in DOMAIN written
    /\ now - written[last.key].timestamp > written[last.key].ttl * 1000
    /\ ~MemoryHas(store, last.key)
    /\ getFullKey(last.key) \notin DOMAIN localStorage

\* C17, as stated: a set or a hit get of a key makes it the most recently
\* used entry of the memory tier, and the insertion of a new key into a
\* full memory tier evicts exactly one entry, the one touched least
\* recently by any get or set.
C17_LruRecency ==
    [][/\ \A key \in LruKeys, value \in CacheValues, ttlSeconds \in CacheTTLs :
            CacheSet(key, value, ttlSeconds, "ok") =>
               /\ store'[Len(store')].key = key
               /\ (~MemoryHas(store, key) /\ Len(store) >= maxMemoryEntries)
                    => KeySet(store')
                         = (KeySet(store) \ {Head(recency)}) \cup {key}
       /\ \A key \in LruKeys :
            (CacheGet(key) /\ last'.data # NullData)
               => store'[Len(store')].key = key]_vars

\* C18, as stated: set removes a key from the memory tier only when the
\* tier is at capacity and the key set is new; overwriting a stored key
\* removes no other key, even from a full tier.
C18_OverwriteEvictsNothing ==
    [][\A key \in LruKeys, value \in CacheValues, ttlSeconds \in CacheTTLs :
         CacheSet(key, value, ttlSeconds, "ok") =>
            /\ MemoryHas(store, key) => KeySet(store') = KeySet(store)
            /\ ~(KeySet(store) \subseteq KeySet(store'))
                 => (Len(store) >= maxMemoryEntries /\ ~MemoryHas(store, key))
      ]_vars

\* C19, as stated: the memory tier never holds more entries than its
\* capacity, whatever the keys.
C19_CapacityBound == Len(store) <= maxMemoryEntries

\* C20: when the first setItem of a localStorage write throws, the expired
\* entries of the tier are swept once and setItem is tried once more; when
\* that throws too the write is dropped and set returns.  A first setItem
\* that succeeds sweeps nothing.
C20_WriteFailureRecovery ==
    [][(/\ last'.op = "set"
        /\ enableLocalStorage
        /\ CacheSet(last'.key, written'[last'.key].data,
                    written'[last'.key].ttl, last'.quota)) =>
            LET key == last'.key
                value == written'[key].data
                ttlSeconds == written'[key].ttl
                quota == last'.quota
                fullKey == getFullKey(key)
                item == [parses |-> TRUE, empty |-> FALSE,
                         entry |-> [data |-> value, timestamp |-> now,
                                    ttl |-> ttlSeconds]]
                kept == {k \in DOMAIN localStorage :
                            ~(/\ startsWithPrefix(k)
                              /\ ~localStorage[k].empty
                              /\ \/ ~localStorage[k].parses
                                 \/ now - localStorage[k].entry.timestamp
                                      > localStorage[k].entry.ttl * 1000)}
                others(keys) ==
                    \A k \in keys \ {fullKey} :
                        /\ k \in DOMAIN localStorage'
                        /\ localStorage'[k] = localStorage[k]
            IN CASE quota = "ok" ->
                      /\ SetItemAttempts(quota) = 1
                      /\ CleanExpiredCalls(quota) = 0
                      /\ DOMAIN localStorage'
                           = (DOMAIN localStorage) \cup {fullKey}
                      /\ localStorage'[fullKey] = item
                      /\ others(DOMAIN localStorage)
                 [] quota = "retry" ->
                      /\ SetItemAttempts(quota) = 2
                      /\ CleanExpiredCalls(quota) = 1
                      /\ DOMAIN localStorage' = kept \cup {fullKey}
                      /\ localStorage'[fullKey] = item
                      /\ others(kept)
                 [] OTHER ->
                      /\ SetItemAttempts(quota) = 2
                      /\ CleanExpiredCalls(quota) = 1
                      /\ DOMAIN localStorage' = kept
                      /\ \A k \in kept : localStorage'[k] = localStorage[k]
      ]_vars

\* Both setItem calls of a set threw: the write was dropped, and the sweep
\* in between removed the expired entry of the other key.
C20_Witness ==
    /\ last.op = "set"
    /\ last.quota = "drop"
    /\ enableLocalStorage
    /\ getFullKey(last.key) \notin DOMAIN localStorage
    /\ \E k \in (DOMAIN written) \ {last.key} :
          /\ now - written[k].timestamp > written[k].ttl * 1000
          /\ getFullKey(k) \notin DOMAIN localStorage

\* C21, as stated: a get that reads from localStorage an item that
\* JSON.parse rejects, the empty string included, returns a miss and
\* removes that item, leaving every other item as it was; the step always
\* completes, and a get of the same key right after it is a miss that
\* changes nothing.
C21_CorruptEntryIsMiss ==
    [][\A key \in CacheKeys :
         CacheGet(key) =>
            LET fullKey == getFullKey(key)
                m == MemoryCacheGet(store, key, now)
                consulted ==
                    enableLocalStorage /\ ~(enableMemory /\ m.data # NullData)
            IN (/\ consulted
                /\ fullKey \in DOMAIN localStorage
                /\ ~localStorage[fullKey].parses) =>
                  /\ last'.data = NullData
                  /\ DOMAIN localStorage' = (DOMAIN localStorage) \ {fullKey}
                  /\ \A k \in DOMAIN localStorage' :
                        localStorage'[k] = localStorage[k]
                  /\ UnifiedCacheGet(store', localStorage', key, now')
                       = [data |-> NullData, store |-> store',
                          ls |-> localStorage']]_vars

\* C22, as stated: once a set of a key has returned, a get of the key
\* returns the value of the latest set or a miss, never the value of an
\* earlier set, whatever localStorage writes failed and whatever was
\* evicted or lost from the memory tier since.
C22_NoStaleValue ==
    (last.op = "get" /\ last.key \in DOMAIN written)
        => last.data \in {NullData, written[last.key].data}

\* C23: with both tiers disabled every get is a miss, for every key and
\* after any sequence of set, get, delete, cleanExpired and clear, also when
\* localStorage holds an entry of the key.
C23_PassThrough ==
    (~enableMemory /\ ~enableLocalStorage) =>
        /\ \A key \in CacheKeys :
              UnifiedCacheGet(store, localStorage, key, now).data = NullData
        /\ last.op = "get" => last.data = NullData

\* With both tiers disabled a get of a key missed after a set of that key,
\* while localStorage holds a live entry of the key left by an earlier
\* session.
C23_Witness ==
    /\ ~enableMemory
    /\ ~enableLocalStorage
    /\ last.op = "get"
    /\ last.data = NullData
    /\ last.key \in DOMAIN written
    /\ getFullKey(last.key) \in DOMAIN localStorage
    /\ localStorage[getFullKey(last.key)].parses
    /\ ~Expired(localStorage[getFullKey(last.key)].entry, now)

\* C24, as stated: set writes the entry to every enabled tier, delete and
\* clear remove from every enabled tier, and no call of get, set, delete
\* or clear changes the contents of a disabled tier.
C24_OnlyEnabledTiers ==
    [][/\ (/\ last'.op = "set"
           /\ CacheSet(last'.key, written'[last'.key].data,
                       written'[last'.key].ttl, last'.quota)) =>
             LET key == last'.key
                 value == written'[key].data
                 ttlSeconds == written'[key].ttl
             IN /\ enableMemory =>
                     MemoryHolds(store', key, value, ttlSeconds, now)
                /\ (enableLocalStorage /\ last'.quota # "drop") =>
                     /\ getFullKey(key) \in DOMAIN localStorage'
                     /\ localStorage'[getFullKey(key)]
                          = [parses |-> TRUE, empty |-> FALSE,
                             entry |-> [data |-> value, timestamp |-> now,
                                        ttl |-> ttlSeconds]]
       /\ \A key \in CacheKeys :
            CacheDelete(key) =>
               /\ enableMemory => ~MemoryHas(store', key)
               /\ enableLocalStorage
                    => getFullKey(key) \notin DOMAIN localStorage'
       /\ CacheClear =>
            /\ enableMemory => store' = <<>>
            /\ enableLocalStorage
                 => \A k \in DOMAIN localStorage' : ~startsWithPrefix(k)
       /\ (\/ last'.op = "set"
           \/ \E key \in CacheKeys : CacheGet(key) \/ CacheDelete(key)
           \/ CacheClear) =>
            /\ ~enableMemory => store' = store
            /\ ~enableLocalStorage => localStorage' = localStorage]_vars

---------------------------------------------------------------------------
(* generateCacheKey (KeySpec).                                             *)

\* The entries of a parameter map that count: those whose value is neither
\* undefined nor the empty string, as a set.
RemainingEntries(params) ==
    {e \in {params[i] : i \in 1..Len(params)} :
        /\ e.value.t # "undefined"
        /\ ~(e.value.t = "string" /\ e.value.s = "")}

\* Sequence a comes strictly before sequence b, element by element.
RECURSIVE CodeUnitsLess(_, _)
CodeUnitsLess(a, b) ==
    IF Len(b) = 0 THEN FALSE
    ELSE IF Len(a) = 0 THEN TRUE
    ELSE IF Head(a) # Head(b) THEN Head(a) < Head(b)
    ELSE CodeUnitsLess(Tail(a), Tail(b))

\* The entries of a set in ascending order of the code units of their keys.
RECURSIVE AscendingByCodeUnits(_)
AscendingByCodeUnits(entries) ==
    IF entries = {} THEN <<>>
    ELSE LET least == CHOOSE e \in entries :
                         \A o \in entries \ {e} :
                            CodeUnitsLess(CodeUnits(e.key), CodeUnits(o.key))
         IN <<least>> \o AscendingByCodeUnits(entries \ {least})

\* C25, as stated: two parameter maps that are set-equal once the entries
\* with an undefined or empty-string value are removed give the same key
\* under every prefix, whatever the order of insertion and whichever keys
\* are present with the value undefined.
C25_KeyDeterminism ==
    last.op = "generateCacheKey" =>
        \A P2 \in ParamMaps :
            RemainingEntries(P2) = RemainingEntries(last.params)
                => generateCacheKey(last.prefix, P2) = last.key

\* C26, as stated: the key is the prefix, "-", and the key=value pairs of
\* the entries whose value is neither undefined nor the empty string,
\* joined with "&" in ascending order of the bytes of their keys; with no
\* such entry it is the prefix and "-".
C26_KeyFormat ==
    last.op = "generateCacheKey" =>
        /\ last.key = last.prefix \o "-" \o
              JoinParams(AscendingByCodeUnits(RemainingEntries(last.params)))
        /\ RemainingEntries(last.params) = {}
              => last.key = last.prefix \o "-"

---------------------------------------------------------------------------
(* useCachedData, continued (Spec).                                        *)

\* C27, as stated: when the debounce timer of a render with a changed
\* dependency tuple fires and fetchData calls fetchFn, the data published
\* before is cleared: the mounted hook does not show data of the old tuple
\* while it loads the new one.
C27_ClearOnChange ==
    (/\ last.op = "timer"
     /\ last.render > 0
     /\ ~last.valid
     /\ isMountedRef) => (loading /\ data = NullData)

\* The guard of a resolved response with the test of the snapshot left
\* out: the request id and the mounted flag alone.
EpochGuard(p) == p.rid = requestIdRef /\ isMountedRef

\* C28: for every pending call of fetchFn, if requestIdRef still has the
\* value the call took then currentParamsRef still has the snapshot the
\* call stored; so the guard that leaves the snapshot test out lets through
\* exactly the responses the full guard lets through, in every state, and
\* publishes and caches the same values in the same order.
C28_SnapshotSubsumed ==
    \A i \in DOMAIN inflight :
        /\ inflight[i].rid = requestIdRef
              => currentParamsRef = inflight[i].params
        /\ ResponseValid(inflight[i]) <=> EpochGuard(inflight[i])

\* Two calls of fetchFn are pending in the mounted hook: the later one has
\* the current request id and the current snapshot, the earlier one has
\* neither.
C28_Witness ==
    /\ isMountedRef
    /\ \E i, j \in DOMAIN inflight :
          /\ inflight[i].rid = requestIdRef
          /\ inflight[i].params = currentParamsRef
          /\ EpochGuard(inflight[i])
          /\ inflight[j].rid # requestIdRef
          /\ inflight[j].params # currentParamsRef

\* The hook with its scheduling: React runs the effects of a render, a
\* debounce timer that stays set is fired by the event loop, and a pending
\* call of fetchFn settles.
LiveSpec ==
    /\ Spec
    /\ WF_vars(Effects)
    /\ WF_vars(\E t \in timers : TimerFire(t))
    /\ WF_vars(\E i \in DOMAIN inflight : Settles(i))

\* What the hook shows belongs to the dependency tuple of the latest
\* render: without an error, data fetched or cached for that tuple; with
\* an error, the error of the latest fetch, made for that tuple.
ShowsFinal ==
    IF error = NullError
    THEN data # NullData /\ data.for = dependencies
    ELSE /\ error = ErrorMessage(requestIdRef)
         /\ currentParamsRef = JSONStringify(dependencies)

\* C29, as stated: with fetchOnMount, if the hook is never unmounted and
\* every debounce timer that is not cancelled has fired from some point on
\* (the renders and the calls of refresh being finitely many, and every
\* call of fetchFn settling), then from some point on loading is false for
\* good, nothing is pending, and the value or the error shown belongs to
\* the final dependency tuple.
C29_EventuallySettled ==
    (fetchOnMount /\ []isMountedRef /\ <>[](timers = {}))
        => <>[](~loading /\ inflight = <<>> /\ ShowsFinal)

\* Every entry of either tier is stored under the cache key of the
\* dependency tuple whose fetchFn produced it.
OwnKeyOnly ==
    /\ \A i \in 1..Len(store) :
          store[i].key = SimpleCacheKey(store[i].data.for)
    /\ \A k \in DOMAIN localStorage :
          /\ localStorage[k].parses
          /\ k = getFullKey(SimpleCacheKey(localStorage[k].entry.data.for))

\* C30, as stated: every entry of either tier is stored under the cache key
\* of the dependency tuple whose fetchFn produced it, and every call of
\* fetchFn is made for the tuple that is the hook's at that moment, for
\* every interleaving of renders, timers, refreshes and settlements.
C30_DispatchedUnderCurrentKey ==
    /\ OwnKeyOnly
    /\ last.op \in {"timer", "refresh"} => last.deps = dependencies
    /\ \A i \in DOMAIN inflight :
          inflight[i].params = JSONStringify(inflight[i].deps)

\* C30, amended: every entry of either tier is stored under the cache key
\* of the dependency tuple whose fetchFn produced it; every call of fetchFn
\* is made for the tuple of the render whose timer or refresh() made it,
\* which need not be the latest render, and carries the snapshot of that
\* tuple, for every interleaving of renders, timers, refreshes and
\* settlements.
C30_NoCrossKey ==
    /\ OwnKeyOnly
    /\ last.op \in {"timer", "refresh"} =>
          /\ last.render \in 0..renders
          /\ last.deps = DepsOf(last.render)
    /\ \A i \in DOMAIN inflight :
          /\ inflight[i].render \in 0..renders
          /\ inflight[i].deps = DepsOf(inflight[i].render)
          /\ inflight[i].params = JSONStringify(inflight[i].deps)

\* refresh() kept from the first render was called after the caller had
\* rendered with another tuple and that render's effects had run; its call
\* of fetchFn resolved and passed the guards: the result was written under
\* the key of its own tuple and not under the key of the latest one.
C30_Witness ==
    /\ enableCache
    /\ last.op = "resolve"
    /\ last.valid
    /\ last.render = 0
    /\ refreshed = last.rid
    /\ renders > 0
    /\ ~effectsPending
    /\ last.deps # dependencies
    /\ MemoryHas(store, SimpleCacheKey(last.deps))
    /\ MemoryEntry(store, SimpleCacheKey(last.deps)).data
         = FetchResult(last.deps, last.rid)
    /\ ~MemoryHas(store, SimpleCacheKey(dependencies))

\* C31: requestIdRef never decreases; every fetch attempt (a firing of the
\* debounce timer, whether it ends in a cache hit or in a call of fetchFn,
\* and every refresh) increments it exactly once and takes the new value;
\* nothing else changes it, and no two attempts hold the same value.
C31_EpochMonotone ==
    [][/\ requestIdRef' >= requestIdRef
       /\ ((\E t \in timers : TimerFire(t))
             \/ (\E r \in 0..renders : Refresh(r))) =>
             /\ requestIdRef' = requestIdRef + 1
             /\ last'.rid = requestIdRef'
       /\ requestIdRef' # requestIdRef => last'.op \in {"timer", "refresh"}
       /\ \A i \in DOMAIN inflight' :
             /\ inflight'[i].rid >= 1
             /\ inflight'[i].rid <= requestIdRef'
             /\ \A j \in DOMAIN inflight' :
                   i # j => inflight'[i].rid # inflight'[j].rid]_vars

\* The second fetch attempt was a firing of the timer that ended in a cache
\* hit, serving what the first attempt fetched: the hit took the value 2
\* although it called no fetchFn.
C31_Witness ==
    /\ last.op = "timer"
    /\ last.hit
    /\ last.valid
    /\ last.rid = 2
    /\ requestIdRef = 2
    /\ inflight = <<>>
    /\ fromCache
    /\ data.rid = 1

---------------------------------------------------------------------------
(* UnifiedCache, continued (CacheSpec).                                    *)

\* No tier that get reads holds an entry of the key.
Gone(key) ==
    /\ enableMemory => ~MemoryHas(store, key)
    /\ enableLocalStorage => getFullKey(key) \notin DOMAIN localStorage

\* C32: delete(key) leaves the key in no tier that get reads, and until
\* the next set(key, ...) no call and no reload brings it back: every
\* get(key) in between is a miss, also after a reload has emptied the
\* memory tier and get consults localStorage.
C32_DeleteSticks ==
    [][\A key \in CacheKeys :
          /\ CacheDelete(key) => Gone(key)'
          /\ (Gone(key) /\ ~(last'.op = "set" /\ last'.key = key)) =>
                /\ Gone(key)'
                /\ (last'.op = "get" /\ last'.key = key)
                      => last'.data = NullData]_vars

\* With both tiers enabled a delete has just removed a key that was held
\* by the memory tier and by localStorage; a get of it now misses.
C32_Witness ==
    /\ enableMemory
    /\ enableLocalStorage
    /\ last.op = "delete"
    /\ last.tier = "both"
    /\ Gone(last.key)
    /\ UnifiedCacheGet(store, localStorage, last.key, now).data = NullData

---------------------------------------------------------------------------
(* useCachedData with enableCache false over a globalCache that is not     *)
(* empty (NoCacheSpec).                                                    *)

\* The cache as another hook with the same cacheKeyPrefix and caching
\* enabled left it: its result for the tuple <<"a">>, in both tiers.
SharedCache ==
    UnifiedCacheSet(<<>>, <<>>, SimpleCacheKey(<<"a">>),
                    FetchResult(<<"a">>, 0), ttl, 0, "ok")

\* The state after the first render of a hook with enableCache false.
NoCacheInit ==
    /\ enableCache = FALSE
    /\ fetchOnMount \in BOOLEAN
    /\ dependencies \in DepTuples
    /\ renders = 0
    /\ rendered = <<dependencies>>
    /\ data = NullData
    /\ loading = TRUE
    /\ error = NullError
    /\ fromCache = FALSE
    /\ debounceTimerRef = 0
    /\ currentParamsRef = JSONStringify(dependencies)
    /\ requestIdRef = 0
    /\ isMountedRef = TRUE
    /\ effectsPending = TRUE
    /\ timers = {}
    /\ inflight = <<>>
    /\ config = globalCache
    /\ store = SharedCache.store
    /\ localStorage = SharedCache.ls
    /\ now = 0
    /\ recency = <<>>
    /\ written = <<>>
    /\ burst = 0
    /\ fired = 0
    /\ refreshed = 0
    /\ VersionIdle
    /\ last = [op |-> "mount", rid |-> 0, render |-> 0,
                   deps |-> dependencies, hit |-> FALSE, valid |-> FALSE]

NoCacheSpec == NoCacheInit /\ [][Next]_vars

\* C33: with enableCache false no fetch attempt reads or writes the
\* cache: every firing of the debounce timer calls fetchFn, also when the
\* cache holds a live entry under the key, fromCache is never true, and
\* only clearCache changes what the two tiers hold.
C33_DisabledCacheUntouched ==
    [][~enableCache =>
         /\ ~fromCache'
         /\ (\E t \in timers : TimerFire(t)) =>
               /\ ~last'.hit
               /\ Len(inflight') = Len(inflight) + 1
               /\ inflight'[Len(inflight')].rid = requestIdRef'
         /\ last'.op # "clearCache" =>
               /\ store' = store
               /\ localStorage' = localStorage]_vars

\* With enableCache false the timer fired for a tuple whose key the cache
\* holds, live, in both tiers: fetchFn was called and nothing was served.
C33_Witness ==
    /\ ~enableCache
    /\ isMountedRef
    /\ last.op = "timer"
    /\ ~last.hit
    /\ loading
    /\ \E i \in DOMAIN inflight : inflight[i].rid = last.rid
    /\ UnifiedCacheGet(store, localStorage, SimpleCacheKey(last.deps),
                       now).data # NullData

---------------------------------------------------------------------------
(* useCachedData, continued (Spec).                                        *)

\* C34, as stated: the debounce effect of every render with a changed
\* dependency tuple sets a debounce timer for the new tuple, also with
\* fetchOnMount false before any fetch attempt; fetchOnMount false only
\* keeps the hook from fetching at creation, where, once the effects of
\* the first render have run, no timer is set and loading is false.
C34_ChangeSchedulesTimer ==
    [][/\ (Effects /\ renders > 0) =>
             \E t \in timers' : /\ t.id = debounceTimerRef'
                                /\ t.deps = dependencies'
       /\ (/\ ~fetchOnMount
           /\ renders' = 0
           /\ refreshed' = 0
           /\ ~effectsPending') =>
             /\ ~loading'
             /\ timers' = {}
             /\ inflight' = <<>>]_vars

---------------------------------------------------------------------------
(* A UnifiedCache storing whatever a fetchFn can resolve with              *)
(* (RoundTripSpec): an object, null, or a number that is NaN.              *)

RoundTripValues == {FetchResult(<<"a">>, 1), NullData, NotANumber}

\* The state after the construction of the cache, localStorage being empty.
RoundTripInit ==
    /\ enableCache = TRUE
    /\ fetchOnMount = FALSE
    /\ dependencies = <<"a">>
    /\ renders = 0
    /\ rendered = <<dependencies>>
    /\ data = NullData
    /\ loading = FALSE
    /\ error = NullError
    /\ fromCache = FALSE
    /\ debounceTimerRef = 0
    /\ currentParamsRef = ""
    /\ requestIdRef = 0
    /\ isMountedRef = FALSE
    /\ effectsPending = FALSE
    /\ timers = {}
    /\ inflight = <<>>
    /\ store = <<>>
    /\ localStorage = <<>>
    /\ now = 0
    /\ config \in CacheConfigs
    /\ recency = <<>>
    /\ written = <<>>
    /\ burst = 0
    /\ fired = 0
    /\ refreshed = 0
    /\ VersionIdle
    /\ last = [op |-> "new", key |-> "", data |-> NullData, tier |-> "none",
               quota |-> "ok", parseError |-> FALSE]

RoundTripNext ==
    \/ \E key \in CacheKeys, value \in RoundTripValues,
          ttlSeconds \in CacheTTLs, quota \in Quotas :
            CacheSet(key, value, ttlSeconds, quota)
    \/ \E key \in CacheKeys : CacheGet(key)
    \/ \E key \in CacheKeys : CacheDelete(key)
    \/ CacheClear
    \/ CacheCleanExpired
    \/ PageReload
    \/ CacheTick

RoundTripSpec == RoundTripInit /\ [][RoundTripNext]_vars

\* C35, as stated: with at least one tier enabled, a get(key) that follows
\* a set(key, V, ttl) at once, no time having passed and no setItem having
\* failed, is a hit and returns V, for every value V a fetchFn can resolve
\* with.
C35_RoundTrip ==
    [][(/\ last.op = "set"
        /\ last.quota = "ok"
        /\ enableMemory \/ enableLocalStorage
        /\ CacheGet(last.key)) =>
          /\ last'.tier # "none"
          /\ last'.data = last.data]_vars

---------------------------------------------------------------------------
(* A UnifiedCache over a window.localStorage that other code of the page   *)
(* uses too (SweepSpec).                                                   *)

\* The items of other code: a setting that is not JSON, and an object
\* that reads like a cache entry long expired.
ForeignItems ==
    setItem(setItem(<<>>, "theme", CorruptItem), "other:k1",
            [parses |-> TRUE, empty |-> FALSE,
             entry |-> [data |-> FetchResult(<<"a">>, 2), timestamp |-> 0,
                        ttl |-> 0]])

\* An entry an earlier session wrote at time 0.
EarlierEntry(ttlSeconds) ==
    [parses |-> TRUE, empty |-> FALSE,
     entry |-> [data |-> FetchResult(<<"a">>, 1), timestamp |-> 0,
                ttl |-> ttlSeconds]]

\* What window.localStorage holds at construction: the items of other
\* code and, under the full keys of k1 and k2, nothing, an unparseable
\* item, an empty string or an entry of an earlier session.
SweepStorages ==
    LET with(ls, key, items) ==
            {ls} \cup {setItem(ls, getFullKey(key), item) : item \in items}
    IN UNION {with(ls, "k2", {EarlierEntry(1)}) :
                ls \in with(ForeignItems, "k1",
                            {CorruptItem, EmptyItem, EarlierEntry(1),
                             EarlierEntry(2)})}

SweepConfigs == {c \in CacheConfigs : c.enableLocalStorage}

SweepInit ==
    /\ enableCache = TRUE
    /\ fetchOnMount = FALSE
    /\ dependencies = <<"a">>
    /\ renders = 0
    /\ rendered = <<dependencies>>
    /\ data = NullData
    /\ loading = FALSE
    /\ error = NullError
    /\ fromCache = FALSE
    /\ debounceTimerRef = 0
    /\ currentParamsRef = ""
    /\ requestIdRef = 0
    /\ isMountedRef = FALSE
    /\ effectsPending = FALSE
    /\ timers = {}
    /\ inflight = <<>>
    /\ store = <<>>
    /\ localStorage \in SweepStorages
    /\ now = 0
    /\ config \in SweepConfigs
    /\ recency = <<>>
    /\ written = <<>>
    /\ burst = 0
    /\ fired = 0
    /\ refreshed = 0
    /\ VersionIdle
    /\ last = [op |-> "new", key |-> "", data |-> NullData, tier |-> "none",
               quota |-> "ok", parseError |-> FALSE]

SweepNext ==
    \/ \E key \in CacheKeys, ttlSeconds \in CacheTTLs, quota \in Quotas :
            CacheSet(key, FetchResult(<<"a">>, 1), ttlSeconds, quota)
    \/ \E key \in CacheKeys : CacheGet(key)
    \/ \E key \in CacheKeys : CacheDelete(key)
    \/ CacheClear
    \/ CacheCleanExpired
    \/ PageReload
    \/ CacheTick

SweepSpec == SweepInit /\ [][SweepNext]_vars

\* The keys of localStorage that belong to the cache.
OwnKeys == {getFullKey(key) : key \in CacheKeys}

\* C36, as stated: no call removes or changes an item of localStorage
\* whose key does not start with the prefix; the sweep, called directly or
\* triggered by a failing setItem, removes exactly the prefixed items that
\* are expired or that JSON.parse rejects, the empty string included, and
\* leaves every other item as it was; clear removes exactly the prefixed
\* items.
C36_SweepConfined ==
    [][/\ \A k \in (DOMAIN localStorage) \ OwnKeys :
             /\ k \in DOMAIN localStorage'
             /\ localStorage'[k] = localStorage[k]
       /\ (last'.op = "set" /\ last'.quota # "ok") =>
             \A k \in (DOMAIN localStorage) \cap OwnKeys :
                 IF last'.quota = "retry" /\ k = getFullKey(last'.key)
                 THEN k \in DOMAIN localStorage'
                 ELSE IF \/ ~localStorage[k].parses
                         \/ Expired(localStorage[k].entry, now)
                      THEN k \notin DOMAIN localStorage'
                      ELSE /\ k \in DOMAIN localStorage'
                           /\ localStorage'[k] = localStorage[k]
       /\ last'.op = "cleanExpired" =>
             \A k \in (DOMAIN localStorage) \cap OwnKeys :
                 IF \/ ~localStorage[k].parses
                    \/ Expired(localStorage[k].entry, now)
                 THEN k \notin DOMAIN localStorage'
                 ELSE /\ k \in DOMAIN localStorage'
                      /\ localStorage'[k] = localStorage[k]
       /\ last'.op = "clear" =>
             DOMAIN localStorage' = (DOMAIN localStorage) \ OwnKeys]_vars

---------------------------------------------------------------------------
(* useCachedData called with a dependency that is an object (RefSpec):     *)
(* the caller passes the string "a" or one of two objects of the same      *)
(* content.  Render(d) is a render after which React runs the debounce     *)
(* effect, which it does when an element of [cacheKey, ...dependencies]    *)
(* is not the same value by Object.is.                                     *)

RefValues == {"a"} \cup ObjectRefs

RefTuples == {<<v>> : v \in RefValues}

\* The state when the first call of the hook has returned to its caller.
RefInit ==
    /\ enableCache = TRUE
    /\ fetchOnMount = TRUE
    /\ dependencies \in RefTuples
    /\ renders = 0
    /\ rendered = <<dependencies>>
    /\ data = NullData
    /\ loading = TRUE
    /\ error = NullError
    /\ fromCache = FALSE
    /\ debounceTimerRef = 0
    /\ currentParamsRef = JSONStringify(dependencies)
    /\ requestIdRef = 0
    /\ isMountedRef = TRUE
    /\ effectsPending = TRUE
    /\ timers = {}
    /\ inflight = <<>>
    /\ store = <<>>
    /\ localStorage = <<>>
    /\ now = 0
    /\ config = globalCache
    /\ recency = <<>>
    /\ written = <<>>
    /\ burst = 0
    /\ fired = 0
    /\ refreshed = 0
    /\ VersionIdle
    /\ last = [op |-> "mount", rid |-> 0, render |-> 0,
                   deps |-> dependencies, hit |-> FALSE, valid |-> FALSE]

RefNext ==
    \/ \E d \in RefTuples : Render(d)
    \/ Effects
    \/ \E t \in timers : TimerFire(t)
    \/ \E r \in 0..renders : Refresh(r)
    \/ \E r \in 0..renders : ClearCache(r)
    \/ \E i \in DOMAIN inflight, quota \in Quotas : ProducerResolve(i, quota)
    \/ \E i \in DOMAIN inflight : ProducerReject(i)
    \/ Unmount
    \/ Tick

RefSpec == RefInit /\ [][RefNext]_vars

\* C37, as stated: a render whose dependency tuple has the snapshot of the
\* tuple before it, be it made of another object, is no change: its
\* effects cancel no debounce timer, set none, and leave requestIdRef
\* alone.
C37_ChangeByValue ==
    [][(/\ Effects
        /\ renders > 0
        /\ JSONStringify(DepsOf(renders))
             = JSONStringify(DepsOf(renders - 1))) =>
          /\ timers' = timers
          /\ debounceTimerRef' = debounceTimerRef
          /\ requestIdRef' = requestIdRef]_vars

---------------------------------------------------------------------------
(* generateCacheKey, continued (KeySpec).                                  *)

\* C38, as stated: under one prefix, two parameter maps that differ once
\* the entries with an undefined or empty-string value are removed (in
\* their keys, or in the value of a key) give different keys, also for
\* strings that contain "&" or "=" and for values of different types with
\* the same text.
C38_KeyInjective ==
    last.op = "generateCacheKey" =>
        \A P2 \in ParamMaps :
            RemainingEntries(P2) # RemainingEntries(last.params)
                => generateCacheKey(last.prefix, P2) # last.key

---------------------------------------------------------------------------
(* checkForUpdates (VersionSpec): the version check of version_check.ts,   *)
(* called by several components of one page.  One step is a call of        *)
(* checkForUpdates up to its return of a promise, the completion of        *)
(* checkViaApi or of checkViaClientDirect with what follows it up to the   *)
(* `finally`, or the passing of time.                                      *)

\* checkForUpdates is called at most this many times.
MaxCalls == 3

\* The clock advances at most this many times.
MaxVersionTicks == 2

\* One advance of the clock, in milliseconds: half of CACHE_TTL.
VersionTickMs == 150000

\* const CACHE_TTL = 5 * 60 * 1000
CACHE_TTL == 5 * 60 * 1000

\* The results a check ends with: UpdateStatus without CHECKING.
UpdateStatus == {"has_update", "no_update", "fetch_failed"}

\* What checkViaApi resolves with: a result, or null when the API failed.
ApiResults == {"has_update", "no_update", NoResult}

\* Whether sessionStorage.setItem succeeds or throws.
StorageOutcomes == {"ok", "throws"}

\* getCachedResult(): the result or NoResult, and the two caches after it.
getCachedResult(mc, ss, t) ==
    IF mc # NoVersionCache /\ t - mc.timestamp < CACHE_TTL
    THEN [result |-> mc.result, memoryCache |-> mc, sessionStorage |-> ss]
    ELSE IF ~ss.present \/ ~ss.parses
    THEN [result |-> NoResult, memoryCache |-> mc, sessionStorage |-> ss]
    ELSE IF t - ss.timestamp < CACHE_TTL
    THEN [result |-> ss.result,
          memoryCache |-> [result |-> ss.result, timestamp |-> ss.timestamp],
          sessionStorage |-> ss]
    ELSE [result |-> NoResult, memoryCache |-> mc, sessionStorage |-> NoItem]

\* setCachedResult(result): the two caches after it.
setCachedResult(ss, result, t, outcome) ==
    [memoryCache |-> [result |-> result, timestamp |-> t],
     sessionStorage |-> IF outcome = "ok"
                        THEN [present |-> TRUE, parses |-> TRUE,
                              result |-> result, timestamp |-> t]
                        ELSE ss]

\* A test of pendingRequest that never finds a pending request.
HasPendingNever(p) == FALSE

\* if (pendingRequest)
HasPending(p) == p # 0

\* A component calls checkForUpdates().
CheckForUpdates ==
    /\ Len(callsMade) < MaxCalls
    /\ LET cached == getCachedResult(memoryCache, sessionStorage, now)
       IN /\ memoryCache' = cached.memoryCache
          /\ sessionStorage' = cached.sessionStorage
          /\ IF cached.result # NoResult
             THEN /\ callsMade' = Append(callsMade,
                        [promise |-> 0, result |-> cached.result,
                         how |-> "cached"])
                  /\ UNCHANGED <<pendingRequest, sequences, apiCalls>>
             ELSE IF HasPending(pendingRequest)
             THEN /\ callsMade' = Append(callsMade,
                        [promise |-> pendingRequest, result |-> NoResult,
                         how |-> "pending"])
                  /\ UNCHANGED <<pendingRequest, sequences, apiCalls>>
             ELSE /\ apiCalls' = apiCalls + 1
                  /\ pendingRequest' = apiCalls + 1
                  /\ sequences' = sequences \cup
                        {[id |-> apiCalls + 1, phase |-> "checkViaApi"]}
                  /\ callsMade' = Append(callsMade,
                        [promise |-> apiCalls + 1, result |-> NoResult,
                         how |-> "new"])
    /\ last' = [op |-> "checkForUpdates", id |-> pendingRequest',
                result |-> callsMade'[Len(callsMade')].result]
    /\ UNCHANGED <<hookVars, cacheVars, cacheHist, burst, fired, refreshed>>

\* The request sequence q ends with result: setCachedResult, the
\* `finally`, and the promise resolving for every caller that holds it.
Finish(q, result, op, outcome) ==
    /\ LET c == setCachedResult(sessionStorage, result, now, outcome)
       IN /\ memoryCache' = c.memoryCache
          /\ sessionStorage' = c.sessionStorage
    /\ pendingRequest' = 0
    /\ sequences' = sequences \ {q}
    /\ callsMade' = [i \in DOMAIN callsMade |->
                       IF callsMade[i].promise = q.id
                       THEN [callsMade[i] EXCEPT !.result = result]
                       ELSE callsMade[i]]
    /\ last' = [op |-> op, id |-> q.id, result |-> result]
    /\ UNCHANGED apiCalls

\* checkViaApi() of the sequence q resolves, with a result or with null.
ApiResponds(q, result, outcome) ==
    /\ q \in sequences
    /\ q.phase = "checkViaApi"
    /\ IF result # NoResult
       THEN Finish(q, result, "checkViaApi", outcome)
       ELSE /\ sequences' = (sequences \ {q}) \cup
                    {[id |-> q.id, phase |-> "checkViaClientDirect"]}
            /\ last' = [op |-> "checkViaApi", id |-> q.id,
                        result |-> NoResult]
            /\ UNCHANGED <<memoryCache, sessionStorage, pendingRequest,
                           callsMade, apiCalls>>
    /\ UNCHANGED <<hookVars, cacheVars, cacheHist, burst, fired, refreshed>>

\* checkViaClientDirect() of the sequence q resolves.
ClientResponds(q, result, outcome) ==
    /\ q \in sequences
    /\ q.phase = "checkViaClientDirect"
    /\ Finish(q, result, "checkViaClientDirect", outcome)
    /\ UNCHANGED <<hookVars, cacheVars, cacheHist, burst, fired, refreshed>>

\* Time passes.
VersionTick ==
    /\ now < MaxVersionTicks * VersionTickMs
    /\ now' = now + VersionTickMs
    /\ last' = [op |-> "tick", id |-> pendingRequest, result |-> NoResult]
    /\ UNCHANGED <<hookVars, store, localStorage, cacheHist, burst, fired,
                   refreshed, versionVars>>

\* The page as loaded: no hook is mounted, the cache is empty, and
\* sessionStorage holds nothing, an unparseable item, or the result of a
\* check made on an earlier page of the session.
VersionInit ==
    /\ enableCache = TRUE
    /\ fetchOnMount = FALSE
    /\ dependencies = <<"a">>
    /\ renders = 0
    /\ rendered = <<dependencies>>
    /\ data = NullData
    /\ loading = FALSE
    /\ error = NullError
    /\ fromCache = FALSE
    /\ debounceTimerRef = 0
    /\ currentParamsRef = ""
    /\ requestIdRef = 0
    /\ isMountedRef = FALSE
    /\ effectsPending = FALSE
    /\ timers = {}
    /\ inflight = <<>>
    /\ store = <<>>
    /\ localStorage = <<>>
    /\ now = 0
    /\ config = globalCache
    /\ recency = <<>>
    /\ written = <<>>
    /\ burst = 0
    /\ fired = 0
    /\ refreshed = 0
    /\ memoryCache = NoVersionCache
    /\ sessionStorage \in
          {NoItem,
           [present |-> TRUE, parses |-> FALSE, result |-> NoResult,
            timestamp |-> 0],
           [present |-> TRUE, parses |-> TRUE, result |-> "no_update",
            timestamp |-> 0]}
    /\ pendingRequest = 0
    /\ sequences = {}
    /\ callsMade = <<>>
    /\ apiCalls = 0
    /\ last = [op |-> "load", id |-> 0, result |-> NoResult]

VersionNext ==
    \/ CheckForUpdates
    \/ \E q \in sequences, result \in ApiResults,
          outcome \in StorageOutcomes : ApiResponds(q, result, outcome)
    \/ \E q \in sequences, result \in UpdateStatus,
          outcome \in StorageOutcomes : ClientResponds(q, result, outcome)
    \/ VersionTick

VersionSpec == VersionInit /\ [][VersionNext]_vars

\* C39: at most one request sequence is in flight and pendingRequest is
\* its promise; a call made while it is pending and no unexpired result is
\* cached issues no request and gets the promise of the pending one, so
\* all callers that hold a promise get the same result; when the sequence
\* ends, by a result or by FETCH_FAILED, pendingRequest is null again, and
\* a call that then finds no cached result starts a new sequence.
C39_SingleFlight ==
    [][/\ Cardinality(sequences') <= 1
       /\ \A q \in sequences' : q.id = pendingRequest'
       /\ pendingRequest' # 0 => sequences' # {}
       /\ \A i, j \in DOMAIN callsMade' :
             (/\ callsMade'[i].promise # 0
              /\ callsMade'[i].promise = callsMade'[j].promise)
                => callsMade'[i].result = callsMade'[j].result
       /\ (/\ CheckForUpdates
           /\ getCachedResult(memoryCache, sessionStorage, now).result
                = NoResult) =>
             IF pendingRequest # 0
             THEN /\ apiCalls' = apiCalls
                  /\ sequences' = sequences
                  /\ pendingRequest' = pendingRequest
                  /\ callsMade'[Len(callsMade')].promise = pendingRequest
             ELSE /\ apiCalls' = apiCalls + 1
                  /\ pendingRequest' = apiCalls'
                  /\ callsMade'[Len(callsMade')].promise = pendingRequest'
       /\ (/\ last'.op \in {"checkViaApi", "checkViaClientDirect"}
           /\ last'.result # NoResult
           /\ sequences' # sequences) =>
             /\ pendingRequest' = 0
             /\ sequences' = {}
             /\ \A i \in DOMAIN callsMade' :
                   callsMade'[i].promise = last'.id
                     => callsMade'[i].result = last'.result]_vars

\* Three calls were made: the first started a check, the second came
\* while it was pending and got its promise, both got FETCH_FAILED when
\* the check ended; the third, made after the cached result had expired,
\* started a second check; checkViaApi was called twice in all.
C39_Witness ==
    /\ Len(callsMade) = 3
    /\ callsMade[1].how = "new"
    /\ callsMade[2].how = "pending"
    /\ callsMade[2].promise = callsMade[1].promise
    /\ callsMade[1].result = "fetch_failed"
    /\ callsMade[2].result = "fetch_failed"
    /\ callsMade[3].how = "new"
    /\ callsMade[3].promise = 2
    /\ pendingRequest = 2
    /\ apiCalls = 2

====
